---- MODULE Spec2Model ----
(***************************************************************************)
(* A model of the websocket leader/lagger trader of fmeer-code/polymarket. *)
(*                                                                         *)
(*   - src/leader_leader_with_websocket.py: TokenState (rolling trade      *)
(*     history), the trigger evaluation of ws_run, run_lagger_trade and    *)
(*     its completion.                                                     *)
(*   - src/helpers.py: execute_trade_lagger, monitor_order,                *)
(*     parse_order_info, cancel_order (the order lifecycle), cash_out and  *)
(*     cash_out_lagger (the exit order).                                   *)
(*                                                                         *)
(* Prices of the trigger part are in cents (0.62 is 62); the venue's trade *)
(* prices sit on a cent grid.  The clock is in seconds.  Python's None is  *)
(* the value None below.  All critical sections under the asyncio lock are *)
(* free of awaits, so each is one atomic action.                           *)
(***************************************************************************)
EXTENDS Integers, Sequences, FiniteSets, TLC

VARIABLES
    now,                \* int(time.time()) relative to the start of ws_run
    state,              \* state[aid]: the TokenState of each asset id
    order_state,        \* the order_state dict of ws_run
    tasks,              \* every run_lagger_trade task created so far
    lastEval,           \* the outcome of the last trigger evaluation or tracker call
    lc,                 \* one invocation of execute_trade_lagger or of a cash-out
    stream,             \* the connection loop of ws_run: its position and backoff
    captures,           \* the captures list of the capture variant's ws_run
    journal,            \* every trade recorded and every capture opened and written
    procs               \* the lock of ws_run and the position of each coroutine

(* The variables of the capture variant, of the record of trades and of   *)
(* the coroutines.                                                        *)
aux == <<captures, journal, procs>>

vars == <<now, state, order_state, tasks, lastEval, lc, stream, aux>>

----------------------------------------------------------------------------
(* Bounds of the model.                                                    *)

MaxTime == 360
MaxTasks == 3

----------------------------------------------------------------------------
(* Program constants.                                                      *)

None == -1

LOOKBACK_SECONDS == 60
TRADE_HISTORY_SECONDS == LOOKBACK_SECONDS * 2
TRIGGER_AMOUNT == 10
TRADE_COOLDOWN_SECONDS == 180
STALE_OLD_SECONDS == 300

LEADER == "LEADER"
LAGGER == "LAGGER"
AssetIds == {LEADER, LAGGER}

(* The clock moves in steps of a lookback period. *)
ClockSteps == {60}

(* Trade prices the feed delivers, in cents. *)
LeaderPrices == {30, 40, 50}
LaggerPrices == {50}

----------------------------------------------------------------------------
(* TokenState: the rolling trade history and the rolling ask history.      *)

(* None for a field that holds a str. *)
NoSide == "None"

NewTokenState ==
    [best_bid |-> None, best_ask |-> None,
     last_trade_price |-> None, last_trade_side |-> NoSide, last_trade_size |-> None,
     last_trade_ts_s |-> None,
     trade_history |-> <<>>, ask_history |-> <<>>, last_update_ts_s |-> None]

(* A value of a message that float() does not take (text that is no number). *)
NotANumber == -2

(* _to_float: the number, or None for a value that is missing or that *)
(* float() does not take; no test of the sign.                        *)
_to_float(x) == IF x = None \/ x = NotANumber THEN None ELSE x

(* _trim, on the ask history; self.lookback_seconds is LOOKBACK_SECONDS. *)
RECURSIVE _trim(_, _)
_trim(h, now_s) ==
    IF h # <<>> /\ now_s - h[1].ts > LOOKBACK_SECONDS
    THEN _trim(Tail(h), now_s)
    ELSE h

_record_best_ask(st, ts_s, best_ask) ==
    [st EXCEPT !.best_ask = best_ask,
               !.ask_history = _trim(Append(st.ask_history, [ts |-> ts_s, price |-> best_ask]), ts_s)]

(* AskChanged that takes every ask for a changed one. *)
AskChanged_Always(cur, ba) == TRUE

(* self.best_ask is None or abs(ba - self.best_ask) > 1e-12, on prices of *)
(* the cent grid.                                                         *)
AskChanged(cur, ba) == cur = None \/ ba # cur

(* update_from_price_change that also records the ask as a trade. *)
update_from_price_change_RecordsTrade(st, ts_s, best_bid, best_ask) ==
    LET bb == _to_float(best_bid)
        ba == _to_float(best_ask)
        st1 == [st EXCEPT !.last_update_ts_s = ts_s,
                          !.best_bid = IF bb # None THEN bb ELSE @]
    IN  IF ba # None
        THEN [_record_best_ask(st1, ts_s, ba) EXCEPT
                  !.last_trade_price = ba, !.last_trade_ts_s = ts_s,
                  !.trade_history = Append(@, [ts |-> ts_s, price |-> ba])]
        ELSE st1

(* update_from_price_change; an ask is appended only when it has changed. *)
update_from_price_change(st, ts_s, best_bid, best_ask) ==
    LET bb == _to_float(best_bid)
        ba == _to_float(best_ask)
        st1 == [st EXCEPT !.last_update_ts_s = ts_s,
                          !.best_bid = IF bb # None THEN bb ELSE @]
    IN  IF ba # None /\ AskChanged(st1.best_ask, ba)
        THEN _record_best_ask(st1, ts_s, ba)
        ELSE st1

(* _trim_trades that tests the age of the oldest entry. *)
RECURSIVE _trim_trades_TestsOldest(_, _)
_trim_trades_TestsOldest(h, now_s) ==
    IF Len(h) > 1 /\ now_s - h[1].ts > TRADE_HISTORY_SECONDS
    THEN _trim_trades_TestsOldest(Tail(h), now_s)
    ELSE h

RECURSIVE _trim_trades(_, _)
_trim_trades(h, now_s) ==
    IF Len(h) > 1 /\ now_s - h[2].ts > TRADE_HISTORY_SECONDS
    THEN _trim_trades(Tail(h), now_s)
    ELSE h

(* The notional that goes with a trade: price * size, or size alone. *)
Notional(price, size) ==
    IF price # None /\ size # None THEN price * size ELSE size

(* _record_trade; the entries of the history are kept as (ts, price). *)
_record_trade(st, ts_s, price, side, size) ==
    [st EXCEPT !.last_trade_price = price,
               !.last_trade_side = side,
               !.last_trade_size = Notional(price, size),
               !.last_trade_ts_s = ts_s,
               !.trade_history =
                   _trim_trades(Append(st.trade_history, [ts |-> ts_s, price |-> price]), ts_s)]

update_from_last_trade(st, ts_s, price, side, size) ==
    LET p == _to_float(price)
        sz == _to_float(size)
        st1 == [st EXCEPT !.last_update_ts_s = ts_s]
    IN  IF p # None THEN _record_trade(st1, ts_s, p, side, sz) ELSE st1

(* update_from_book that records the best ask as the last trade price. *)
update_from_book_RecordsAsk(st, ts_s, bids, asks, last_trade_price) ==
    LET bb == IF bids # <<>> THEN _to_float(bids[1]) ELSE None
        ba == IF asks # <<>> THEN _to_float(asks[1]) ELSE None
        ltp == _to_float(last_trade_price)
        st1 == [st EXCEPT !.last_update_ts_s = ts_s,
                          !.best_bid = IF bb # None THEN bb ELSE @]
        st2 == IF ba # None /\ AskChanged(st1.best_ask, ba)
               THEN _record_best_ask(st1, ts_s, ba)
               ELSE st1
    IN  IF ltp # None /\ ba # None THEN _record_trade(st2, ts_s, ba, NoSide, None) ELSE st2

(* update_from_book: the top of each side (the first level), the ask      *)
(* appended when it has changed, and the last trade price recorded when   *)
(* the snapshot holds one.                                                *)
update_from_book(st, ts_s, bids, asks, last_trade_price) ==
    LET bb == IF bids # <<>> THEN _to_float(bids[1]) ELSE None
        ba == IF asks # <<>> THEN _to_float(asks[1]) ELSE None
        ltp == _to_float(last_trade_price)
        st1 == [st EXCEPT !.last_update_ts_s = ts_s,
                          !.best_bid = IF bb # None THEN bb ELSE @]
        st2 == IF ba # None /\ AskChanged(st1.best_ask, ba)
               THEN _record_best_ask(st1, ts_s, ba)
               ELSE st1
    IN  IF ltp # None THEN _record_trade(st2, ts_s, ltp, NoSide, None) ELSE st2

(* ScanOld that does not stop at the first entry younger than a lookback. *)
RECURSIVE ScanOld_NoBreak(_, _, _)
ScanOld_NoBreak(h, now_s, old) ==
    IF h = <<>> THEN old
    ELSE IF now_s - Head(h).ts >= LOOKBACK_SECONDS
         THEN ScanOld_NoBreak(Tail(h), now_s, Head(h).price)
         ELSE ScanOld_NoBreak(Tail(h), now_s, old)

(* The scan of get_current_and_old_trade: old moves to each entry that is  *)
(* at least a lookback old, and the scan stops at the first younger one.   *)
RECURSIVE ScanOld(_, _, _)
ScanOld(h, now_s, old) ==
    IF h = <<>> THEN old
    ELSE IF now_s - Head(h).ts >= LOOKBACK_SECONDS
         THEN ScanOld(Tail(h), now_s, Head(h).price)
         ELSE old

(* get_current_and_old_trade with the staleness test now - ts > 300. *)
get_current_and_old_trade_StaleStrict(st, now_s) ==
    LET h == _trim_trades(st.trade_history, now_s)
        st2 == [st EXCEPT !.trade_history = h]
    IN  IF h = <<>> THEN [st |-> st2, cur |-> None, old |-> None]
        ELSE LET last == h[Len(h)]
             IN  IF now_s - last.ts > STALE_OLD_SECONDS
                 THEN [st |-> st2, cur |-> last.price, old |-> None]
                 ELSE [st |-> st2, cur |-> last.price,
                       old |-> ScanOld(h, now_s, last.price)]

(* get_current_and_old_trade: the trimmed history and (cur, old). *)
get_current_and_old_trade(st, now_s) ==
    LET h == _trim_trades(st.trade_history, now_s)
        st2 == [st EXCEPT !.trade_history = h]
    IN  IF h = <<>> THEN [st |-> st2, cur |-> None, old |-> None]
        ELSE LET last == h[Len(h)]
             IN  IF now_s - last.ts >= STALE_OLD_SECONDS
                 THEN [st |-> st2, cur |-> last.price, old |-> None]
                 ELSE [st |-> st2, cur |-> last.price,
                       old |-> ScanOld(h, now_s, last.price)]

(* get_recent_trades with both bounds exclusive. *)
get_recent_trades_Exclusive(st, since_ts, until_ts) ==
    LET Between(e) == since_ts < e.ts /\ e.ts < until_ts
    IN  SelectSeq(st.trade_history, Between)

(* get_recent_trades: the retained trades with since_ts <= ts <= until_ts. *)
get_recent_trades(st, since_ts, until_ts) ==
    LET Between(e) == since_ts <= e.ts /\ e.ts <= until_ts
    IN  SelectSeq(st.trade_history, Between)

(* get_current_and_old_ask with old defaulting to the current ask, as the *)
(* trade query does.                                                      *)
get_current_and_old_ask_DefaultsToCurrent(st, now_s) ==
    LET h == _trim(st.ask_history, now_s)
        st2 == [st EXCEPT !.ask_history = h]
    IN  IF h = <<>> THEN [st |-> st2, cur |-> st.best_ask, old |-> None]
        ELSE [st |-> st2, cur |-> st.best_ask, old |-> ScanOld(h, now_s, st.best_ask)]

(* get_current_and_old_ask: the trimmed history and (cur, old). *)
get_current_and_old_ask(st, now_s) ==
    LET h == _trim(st.ask_history, now_s)
        st2 == [st EXCEPT !.ask_history = h]
    IN  IF h = <<>> THEN [st |-> st2, cur |-> st.best_ask, old |-> None]
        ELSE [st |-> st2, cur |-> st.best_ask, old |-> ScanOld(h, now_s, h[1].price)]

----------------------------------------------------------------------------
(* The trigger evaluation of ws_run.                                       *)

(* Pairs (cur, old) of cent prices exactly 10 cents apart for which the    *)
(* IEEE-754 double difference float(cur/100) - float(old/100) is above the *)
(* double 0.1.                                                             *)
FloatDiffAboveTenth ==
    { <<28, 18>>, <<34, 24>>, <<39, 29>>, <<40, 30>>, <<45, 35>>, <<46, 36>>,
      <<51, 41>>, <<52, 42>>, <<53, 43>>, <<54, 44>>, <<55, 45>>, <<56, 46>>,
      <<67, 57>>, <<68, 58>>, <<79, 69>>, <<80, 70>>, <<81, 71>>, <<92, 82>>,
      <<93, 83>> }

(* (cur - old) > TRIGGER_AMOUNT on Python floats. *)
DeltaExceedsTrigger(cur, old) ==
    \/ cur - old > TRIGGER_AMOUNT
    \/ cur - old = TRIGGER_AMOUNT /\ <<cur, old>> \in FloatDiffAboveTenth

(* LeaderCondition without the test of the active flag. *)
LeaderCondition_IgnoresActive(os, now_s, cur, old) ==
    /\ now_s >= os.cooldown_until
    /\ cur # None
    /\ old # None
    /\ DeltaExceedsTrigger(cur, old)

(* LeaderCondition without the test of the cooldown. *)
LeaderCondition_IgnoresCooldown(os, now_s, cur, old) ==
    /\ ~os.active
    /\ cur # None
    /\ old # None
    /\ DeltaExceedsTrigger(cur, old)

(* The condition of the outer if on the leader. *)
LeaderCondition(os, now_s, cur, old) ==
    /\ ~os.active
    /\ now_s >= os.cooldown_until
    /\ cur # None
    /\ old # None
    /\ DeltaExceedsTrigger(cur, old)

(* FiredOrderState without the write of cooldown_until. *)
FiredOrderState_KeepsCooldown(os, now_s) ==
    [os EXCEPT !.active = TRUE, !.last_status = "submitting"]

(* FiredOrderState with the cooldown counted from the start of ws_run. *)
FiredOrderState_CooldownFromStart(os, now_s) ==
    [os EXCEPT !.active = TRUE,
               !.last_status = "submitting",
               !.cooldown_until = TRADE_COOLDOWN_SECONDS]

(* The order_state after a firing. *)
FiredOrderState(os, now_s) ==
    [os EXCEPT !.active = TRUE,
               !.last_status = "submitting",
               !.cooldown_until = now_s + TRADE_COOLDOWN_SECONDS]

(* EvaluatedOrderState with the cooldown written before the reference    *)
(* price is tested.                                                      *)
EvaluatedOrderState_CooldownFirst(os, now_s, ok, ref) ==
    IF ~ok THEN os
    ELSE IF ref # None THEN FiredOrderState(os, now_s)
    ELSE [os EXCEPT !.cooldown_until = now_s + TRADE_COOLDOWN_SECONDS]

(* The order_state after one evaluation: ok is the leader condition and  *)
(* ref the lagger's reference price (lagger_old).                        *)
EvaluatedOrderState(os, now_s, ok, ref) ==
    IF ok /\ ref # None THEN FiredOrderState(os, now_s) ELSE os

NewTask(now_s) ==
    [pc |-> "executing", firedAt |-> now_s, status |-> "none"]

(* One event of a batch: a last_trade_price message for a subscribed asset. *)
Events ==
    [aid : {LEADER}, price : LeaderPrices] \cup [aid : {LAGGER}, price : LaggerPrices]

Batches == {<<>>} \cup { <<e>> : e \in Events }

RECURSIVE ApplyEvents(_, _, _)
ApplyEvents(s, batch, ts_s) ==
    IF batch = <<>> THEN s
    ELSE LET e == Head(batch)
         IN  ApplyEvents([s EXCEPT ![e.aid] = update_from_last_trade(s[e.aid], ts_s, e.price, NoSide, None)],
                         Tail(batch), ts_s)

(* The feed delivers at most one leader trade per clock value, and the   *)
(* lagger trades at most once.                                           *)
Deliverable(batch) ==
    /\ \A i \in 1..Len(batch) :
          IF batch[i].aid = LEADER
          THEN state[LEADER].last_trade_ts_s # now
          ELSE state[LAGGER].last_trade_ts_s = None
    /\ \A i, j \in 1..Len(batch) : i # j => batch[i].aid # batch[j].aid

(* One frame of the stream: the batch is applied and the trigger evaluated, *)
(* all under the lock.                                                      *)
Dispatch(batch) ==
    /\ Len(tasks) < MaxTasks
    /\ Deliverable(batch)
    /\ LET s1 == ApplyEvents(state, batch, now)
           lead == get_current_and_old_trade(s1[LEADER], now)
           s2 == [s1 EXCEPT ![LEADER] = lead.st]
           ok == LeaderCondition(order_state, now, lead.cur, lead.old)
           lag == get_current_and_old_trade(s2[LAGGER], now)
           fire == ok /\ lag.old # None
       IN  /\ state' = IF ok THEN [s2 EXCEPT ![LAGGER] = lag.st] ELSE s2
           /\ order_state' = EvaluatedOrderState(order_state, now, ok, lag.old)
           /\ tasks' = IF fire THEN Append(tasks, NewTask(now)) ELSE tasks
           /\ lastEval' = IF fire THEN "fired"
                          ELSE IF ok THEN "skipped_no_reference"
                          ELSE "not_triggered"
    /\ UNCHANGED <<now, lc, stream, aux>>

Tick(d) ==
    /\ now + d <= MaxTime
    /\ now' = now + d
    /\ UNCHANGED <<state, order_state, tasks, lastEval, lc, stream, aux>>

----------------------------------------------------------------------------
(* run_lagger_trade.                                                       *)

(* What the trade function hands back to run_lagger_trade: a status (None  *)
(* when no poll ever succeeded and the cancel failed).                     *)
TradeStatuses == {"matched", "NoneStatus"}

(* The executor thread finishes the trade function: it returns a status. *)
TradeReturns(i, status) ==
    /\ i \in 1..Len(tasks)
    /\ tasks[i].pc = "executing"
    /\ tasks' = [tasks EXCEPT ![i].pc = "returned", ![i].status = status]
    /\ UNCHANGED <<now, state, order_state, lastEval, lc, stream, aux>>

(* The executor thread finishes the trade function: it raises. *)
TradeRaises(i) ==
    /\ i \in 1..Len(tasks)
    /\ tasks[i].pc = "executing"
    /\ tasks' = [tasks EXCEPT ![i].pc = "raised"]
    /\ UNCHANGED <<now, state, order_state, lastEval, lc, stream, aux>>

(* The status run_lagger_trade ends with: the except clause turns a raise  *)
(* into "error". *)
CompletionStatus(t) ==
    IF t.pc = "raised" THEN "error" ELSE t.status

(* order_state["last_status"] = status or "timeout" *)
StatusOrTimeout(status) ==
    IF status = "NoneStatus" THEN "timeout" ELSE status

(* The order_state after the task's locked completion step. *)
CompletedOrderState(os, t) ==
    [os EXCEPT !.active = FALSE, !.last_status = StatusOrTimeout(CompletionStatus(t))]

(* Complete without the except clause: a raise ends the task before the  *)
(* locked step.                                                           *)
Complete_NoExcept(i) ==
    /\ i \in 1..Len(tasks)
    /\ tasks[i].pc \in {"returned", "raised"}
    /\ order_state' = IF tasks[i].pc = "raised" THEN order_state
                      ELSE CompletedOrderState(order_state, tasks[i])
    /\ tasks' = [tasks EXCEPT ![i].pc = "finished", ![i].status = "none"]
    /\ UNCHANGED <<now, state, lastEval, lc, stream, aux>>

(* The task resumes after the executor future: it clears active under the  *)
(* lock and returns, all in one step of the event loop.                    *)
Complete(i) ==
    /\ i \in 1..Len(tasks)
    /\ tasks[i].pc \in {"returned", "raised"}
    /\ order_state' = CompletedOrderState(order_state, tasks[i])
    /\ tasks' = [tasks EXCEPT ![i].pc = "finished", ![i].status = "none"]
    /\ UNCHANGED <<now, state, lastEval, lc, stream, aux>>

----------------------------------------------------------------------------

(* The connection loop before its first connect: backoff = 1.  waits is  *)
(* the sleeps made since the last subscription, lost the way the last    *)
(* connection was lost, frames the frames read so far and seen the       *)
(* shapes of the last two of them.                                       *)
(* No trade recorded, none with a timestamp ahead of the clock, no capture *)
(* opened or written.                                                     *)
NewJournal == [recorded |-> <<>>, ahead |-> FALSE, opened |-> 0, written |-> <<>>]

(* lock = asyncio.Lock() is free, the frame loop is about to connect, the  *)
(* printer about to print its header, no order task exists and no pinger.  *)
NewProcs ==
    [lock |-> "none", dispatch |-> "connecting", printer |-> "header",
     task |-> "idle", pinger |-> "idle"]

NewStream ==
    [pc |-> "connecting", backoff |-> 1, waits |-> <<>>, lost |-> "none",
     frames |-> 0, seen |-> <<>>]

(* The state of ws_run before the first frame; ws_run starts at time 0. *)
TriggerInit ==
    /\ now = 0
    /\ state = [aid \in AssetIds |-> NewTokenState]
    /\ order_state = [active |-> FALSE, last_status |-> "",
                      cooldown_until |-> 0 + TRADE_COOLDOWN_SECONDS]
    /\ tasks = <<>>
    /\ lastEval = "none"
    /\ stream = NewStream
    /\ captures = <<>>
    /\ journal = NewJournal
    /\ procs = NewProcs

(* The trade function is taken by what it hands back to run_lagger_trade. *)
InitTrigger ==
    /\ TriggerInit
    /\ lc = [pc |-> "idle"]

NextTrigger ==
    \/ \E b \in Batches : Dispatch(b)
    \/ \E d \in ClockSteps : Tick(d)
    \/ \E i \in 1..MaxTasks, s \in TradeStatuses : TradeReturns(i, s)
    \/ \E i \in 1..MaxTasks : TradeRaises(i)
    \/ \E i \in 1..MaxTasks : Complete(i)

SpecTrigger == InitTrigger /\ [][NextTrigger]_vars

(* The executor thread runs the trade function to its end, and the event  *)
(* loop resumes a task whose future is done.                              *)
TradeFinishes ==
    \E i \in 1..MaxTasks : (\E s \in TradeStatuses : TradeReturns(i, s)) \/ TradeRaises(i)

FairSpecTrigger ==
    /\ SpecTrigger
    /\ WF_vars(TradeFinishes)
    /\ WF_vars(\E i \in 1..MaxTasks : Complete(i))

----------------------------------------------------------------------------
(* Claims about the trigger and run_lagger_trade.                          *)

Outstanding == { i \in 1..Len(tasks) : tasks[i].pc \in {"executing", "returned", "raised"} }

(* C1: single-flight. At most one lifecycle task is outstanding in every   *)
(* reachable state, and active = TRUE implies exactly one outstanding task *)
(* (so the trigger never starts a task while active is true).              *)
C1_SingleFlight ==
    /\ Cardinality(Outstanding) <= 1
    /\ order_state.active => Cardinality(Outstanding) = 1

(* A second flight is under way after the first one has finished. *)
C1_Witness ==
    /\ Len(tasks) = 2
    /\ tasks[1].pc = "finished"
    /\ tasks[2].pc = "executing"
    /\ order_state.active

(* C2: cooldown. Any two trigger firings of one run are at least           *)
(* TRADE_COOLDOWN_SECONDS apart, whether or not the first task is finished. *)
C2_Cooldown ==
    \A i, j \in 1..Len(tasks) :
        i < j => tasks[j].firedAt - tasks[i].firedAt >= TRADE_COOLDOWN_SECONDS

(* The first task is finished, the leader data still shows the move, the  *)
(* cooldown has not elapsed and the re-evaluation did not fire.           *)
C2_ReevaluationDoesNotFire ==
    /\ Len(tasks) = 1
    /\ tasks[1].pc = "finished"
    /\ now = tasks[1].firedAt
    /\ now < order_state.cooldown_until
    /\ lastEval = "not_triggered"
    /\ LET q == get_current_and_old_trade(state[LEADER], now)
       IN  q.cur # None /\ q.old # None /\ DeltaExceedsTrigger(q.cur, q.old)

(* Two firings, exactly one cooldown apart. *)
C2_TwoFirings ==
    /\ Len(tasks) = 2
    /\ tasks[2].firedAt - tasks[1].firedAt = TRADE_COOLDOWN_SECONDS

(* The firing condition as the claim states it, on exact prices. *)
ClaimedFire(batch) ==
    LET s1 == ApplyEvents(state, batch, now)
        lead == get_current_and_old_trade(s1[LEADER], now)
        lag == get_current_and_old_trade(s1[LAGGER], now)
    IN  /\ ~order_state.active
        /\ now >= order_state.cooldown_until
        /\ lead.cur # None
        /\ lead.old # None
        /\ lead.cur - lead.old > TRIGGER_AMOUNT
        /\ lag.old # None

(* C3: the evaluation after a batch fires if and only if no task is       *)
(* active, now >= cooldownUntil, the leader's current and lagged prices   *)
(* are available, current - lagged is strictly greater than the threshold *)
(* (a delta equal to the threshold does not fire) and the lagger's lagged *)
(* price is available.                                                    *)
C3_FiresIffConditions ==
    [][\A b \in Batches : Dispatch(b) => ((lastEval' = "fired") <=> ClaimedFire(b))]_vars

(* C4: when the leader conditions hold and the lagger's reference price   *)
(* is unavailable the evaluation is a no-op: order_state (active,         *)
(* last_status, cooldown_until) is unchanged and no task is scheduled, so *)
(* the next evaluation is still free to fire.                             *)
C4_SkipIsNoOp ==
    [][\A b \in Batches :
          (Dispatch(b) /\ lastEval' = "skipped_no_reference")
          => /\ order_state' = order_state
             /\ tasks' = tasks
             /\ ~order_state'.active
             /\ now' >= order_state'.cooldown_until]_vars

C4_Witness ==
    /\ lastEval = "skipped_no_reference"
    /\ state[LAGGER].trade_history = <<>>

(* C5: every started task eventually completes and clears active,         *)
(* recording a last status, also when the trade function raises.          *)
C5_ActiveCleared ==
    order_state.active
        ~> (~order_state.active /\ order_state.last_status \in {"matched", "timeout", "error"})

(* A task whose trade function raised has been completed. *)
C5_Witness ==
    /\ Len(tasks) >= 1
    /\ tasks[Len(tasks)].pc = "finished"
    /\ ~order_state.active
    /\ order_state.last_status = "error"

----------------------------------------------------------------------------
(* The order lifecycle: execute_trade_lagger, monitor_order,               *)
(* parse_order_info and cancel_order of helpers.py.                        *)
(*                                                                         *)
(* The reference price and the offset are in thousandths of a dollar, the  *)
(* limit price in cents (it is rounded to 2 decimals), quantities in       *)
(* hundredths of a share, the monitor's clock in seconds.                  *)

(* Bounds of the lifecycle: the monitor_timeout handed to the monitor. *)
MonitorTimeout == 3

(* Program constants. *)
CEILING_CENTS == 90
TRADE_AMOUNT_USDC == 10

NoStatus == "None"

TerminalFill == {"filled", "closed", "matched"}
TerminalNonFill == {"cancelled", "expired"}

(* Inputs of one invocation: (reference price, offset). *)
Inputs ==
    { <<500, 100>>, <<803, 100>>, <<805, 100>>, <<845, 50>>, <<845, 100>>, <<880, 50>> }

(* (ref, offset) whose float sum lies below the half-cent it prints as,    *)
(* so that round(.., 2) goes down: 0.845 + 0.1 = 0.945 -> 0.94.            *)
TieRoundsDown == { <<845, 100>> }

(* round(lagger_price_1m_ago + trigger_amount, 2), in cents. *)
RoundedLimit(ref, offset) ==
    LET m == ref + offset
    IN  IF m % 10 = 5
        THEN IF <<ref, offset>> \in TieRoundsDown THEN m \div 10 ELSE m \div 10 + 1
        ELSE (m + 5) \div 10

(* LimitCapped with the offset left out of the compared price. *)
LimitCapped_IgnoresOffset(ref, offset) == RoundedLimit(ref, 0) > CEILING_CENTS

(* if limit_price > 0.9 *)
LimitCapped(ref, offset) == RoundedLimit(ref, offset) > CEILING_CENTS

(* round(TRADE_AMOUNT_USDC / limit_price, 2), in hundredths of a share. *)
SharesFor(limit) ==
    (2 * TRADE_AMOUNT_USDC * 10000 + limit) \div (2 * limit)

(* Venue calls made so far (quote is the calls of client.get_price), and   *)
(* attempts is the calls of cancel_order.                                  *)
NoCalls ==
    [quote |-> 0, create |-> 0, post |-> 0, poll |-> 0, rest |-> 0, cancel |-> 0,
     attempts |-> 0]

NewLifecycle(ref, offset) ==
    [op |-> "execute_trade_lagger",
     pc |-> "start", ref |-> ref, offset |-> offset, limit |-> 0, shares |-> 0,
     clock |-> 0, last_status |-> NoStatus, last_filled |-> 0, remaining |-> None,
     reported |-> 0,
     failed |-> 0, mon_exit |-> "none", mon_status |-> NoStatus, mon_filled |-> 0,
     raised |-> {}, cancel |-> "none", calls |-> NoCalls, result |-> <<NoStatus, 0>>]

(* Lines 350-360: the limit price, the cap and the size. *)
Start ==
    /\ lc.pc = "start"
    /\ LET limit == RoundedLimit(lc.ref, lc.offset)
       IN  lc' = IF LimitCapped(lc.ref, lc.offset)
                 THEN [lc EXCEPT !.pc = "done", !.limit = limit,
                                 !.result = <<"skipped_limit", 0>>]
                 ELSE [lc EXCEPT !.pc = "create", !.limit = limit,
                                 !.shares = SharesFor(limit)]
    /\ UNCHANGED <<now, state, order_state, tasks, lastEval, stream, aux>>

(* What a venue call of the submission raises: a PolyApiException or some  *)
(* other exception, with the words its text holds.                         *)
Keywords == {"balance", "allowance", "approval"}
ErrorTexts == { {}, {"balance"}, {"allowance"}, {"approval"}, {"balance", "allowance"} }
Raised == [poly : BOOLEAN, words : ErrorTexts]

(* SubmitErrorStatus with allowance and approval looked for before balance. *)
SubmitErrorStatus_AllowanceFirst(exc) ==
    IF ~exc.poly THEN "submit_error"
    ELSE IF "allowance" \in exc.words \/ "approval" \in exc.words THEN "allowance_needed"
    ELSE IF "balance" \in exc.words THEN "insufficient_balance"
    ELSE "submit_error"

(* The except clauses of the submission. *)
SubmitErrorStatus(exc) ==
    IF ~exc.poly THEN "submit_error"
    ELSE IF "balance" \in exc.words THEN "insufficient_balance"
    ELSE IF "allowance" \in exc.words \/ "approval" \in exc.words THEN "allowance_needed"
    ELSE "submit_error"

(* client.create_order(order_args) returns. *)
CreateOrder ==
    /\ lc.pc = "create"
    /\ lc' = [lc EXCEPT !.pc = "post", !.calls.create = @ + 1]
    /\ UNCHANGED <<now, state, order_state, tasks, lastEval, stream, aux>>

(* client.create_order(order_args) raises. *)
CreateOrderRaises(exc) ==
    /\ lc.pc = "create"
    /\ lc' = [lc EXCEPT !.pc = "done", !.calls.create = @ + 1, !.raised = {exc},
                        !.result = <<SubmitErrorStatus(exc), 0>>]
    /\ UNCHANGED <<now, state, order_state, tasks, lastEval, stream, aux>>

(* PostOrder that posts again when the response holds no order id. *)
PostOrder_Resubmits(hasId) ==
    /\ lc.pc = "post"
    /\ lc' = IF hasId
             THEN [lc EXCEPT !.pc = "monitor", !.calls.post = @ + 1]
             ELSE [lc EXCEPT !.calls.post = @ + 1]
    /\ UNCHANGED <<now, state, order_state, tasks, lastEval, stream, aux>>

(* client.post_order returns a response, with or without an order id. *)
PostOrder(hasId) ==
    /\ lc.pc = "post"
    /\ lc' = IF hasId
             THEN [lc EXCEPT !.pc = "monitor", !.calls.post = @ + 1]
             ELSE [lc EXCEPT !.pc = "done", !.calls.post = @ + 1,
                             !.result = <<"no_order_id", 0>>]
    /\ UNCHANGED <<now, state, order_state, tasks, lastEval, stream, aux>>

(* client.post_order raises. *)
PostOrderRaises(exc) ==
    /\ lc.pc = "post"
    /\ lc' = [lc EXCEPT !.pc = "done", !.calls.post = @ + 1, !.raised = {exc},
                        !.result = <<SubmitErrorStatus(exc), 0>>]
    /\ UNCHANGED <<now, state, order_state, tasks, lastEval, stream, aux>>

----------------------------------------------------------------------------
(* monitor_order and parse_order_info.                                     *)

RawStatuses == {"LIVE", "MATCHED", "filled", "cancelled", ""}

(* str(...).lower() *)
Lower(raw) ==
    CASE raw = "LIVE" -> "live"
      [] raw = "MATCHED" -> "matched"
      [] OTHER -> raw

(* A status payload: its status, filledSize, remainingSize and size fields *)
(* (None when absent), numbers sent as JSON numbers or as JSON strings,    *)
(* and the sizes of its fills list (empty when absent).                    *)
Payloads ==
    [status : RawStatuses, filledSize : {None, 0, 400}, remainingSize : {None, 0, 500},
     size : {None, 400}, asStrings : BOOLEAN, fills : {<<>>, <<100, 200>>}]

(* What client.get_order gives: it raises, returns None, returns an empty  *)
(* payload, or returns a payload.  What the REST fallback gives: it        *)
(* raises, answers not ok, answers an empty body, or a payload.            *)
ClientResults == {"raises", "none", "empty"}
RestResults == {"raises", "not_ok", "empty"}

PollInputs ==
    [client : ClientResults \ {"empty"}, rest : RestResults]
        \cup [client : {"empty"}, rest : {"unused"}]

(* The order_info of one iteration that reaches parse_order_info. *)
PayloadInputs ==
    [via : {"client", "rest"}, info : Payloads]

(* _num: a missing value counts 0. *)
_num(val) == IF val = None THEN 0 ELSE val

(* sum(_num(fill.get("size") ...) for fill in fills_list) *)
RECURSIVE FillsSum(_)
FillsSum(fills) ==
    IF fills = <<>> THEN 0 ELSE _num(Head(fills)) + FillsSum(Tail(fills))

(* parse_order_info on a JSON object: the largest of the fill candidates. *)
ParsedFilled0(p) ==
    LET direct == _num(p.filledSize)
        fills_sum == FillsSum(p.fills)
    IN  IF direct >= fills_sum THEN direct ELSE fills_sum

(* remainingSize or remaining; a number 0 is falsy, a string "0" is not. *)
RemainingTruthy(p) ==
    p.remainingSize # None /\ (p.asStrings \/ p.remainingSize # 0)

ParsedRemaining(p) ==
    IF RemainingTruthy(p) THEN p.remainingSize
    ELSE IF p.size # None THEN p.size - ParsedFilled0(p)
    ELSE None

(* The remaining_size handed back is a str: comparing it with 0 raises. *)
RemainingIsString(p) == RemainingTruthy(p) /\ p.asStrings

(* ParsedFilled with the fallback taken whatever the status. *)
ParsedFilled_AnyStatus(p, original_size) ==
    IF ParsedFilled0(p) <= 0 /\ original_size # 0
    THEN original_size
    ELSE ParsedFilled0(p)

(* Lines 189-190: the fallback to the requested size. *)
ParsedFilled(p, original_size) ==
    IF ParsedFilled0(p) <= 0 /\ original_size # 0 /\ Lower(p.status) \in TerminalFill
    THEN original_size
    ELSE ParsedFilled0(p)

(* IsTerminal with only "filled" taken as a terminal fill. *)
IsTerminal_OnlyFilled(status) == status \in {"filled"} \cup TerminalNonFill

(* Lines 225-228: the statuses on which monitor_order returns. *)
IsTerminal(status) == status \in TerminalFill \cup TerminalNonFill

(* NothingRemains that also ends the loop on any reported status. *)
NothingRemains_OrAnyStatus(status, remaining) ==
    \/ status # ""
    \/ remaining # None /\ remaining <= 0

(* Line 229: remaining_size is not None and remaining_size <= 0. *)
NothingRemains(status, remaining) ==
    remaining # None /\ remaining <= 0

(* The time one iteration takes: the calls and the sleep of one second. *)
PollDurations == {1, 2}

(* FailedPoll with the last observation forgotten. *)
FailedPoll_Forgets(l, d, usedRest) ==
    [l EXCEPT !.clock = @ + d, !.failed = @ + 1,
              !.last_status = NoStatus, !.last_filled = 0,
              !.calls.poll = @ + 1,
              !.calls.rest = IF usedRest THEN @ + 1 ELSE @]

(* Lines 218-220: nothing came back; sleep and go on. *)
FailedPoll(l, d, usedRest) ==
    [l EXCEPT !.clock = @ + d, !.failed = @ + 1,
              !.calls.poll = @ + 1,
              !.calls.rest = IF usedRest THEN @ + 1 ELSE @]

(* One iteration in which neither the client nor the REST fallback gives   *)
(* an order_info.                                                          *)
PollFails(in, d) ==
    /\ lc.pc = "monitor"
    /\ lc.clock < MonitorTimeout
    /\ lc' = FailedPoll(lc, d, in.rest # "unused")
    /\ UNCHANGED <<now, state, order_state, tasks, lastEval, stream, aux>>

(* Lines 222-232 on a JSON object p. *)
PolledLifecycle(l, p, d, usedRest) ==
    LET status == Lower(p.status)
        filled == ParsedFilled(p, l.shares)
        remaining == ParsedRemaining(p)
        counted == [l EXCEPT !.calls.poll = @ + 1,
                             !.calls.rest = IF usedRest THEN @ + 1 ELSE @,
                             !.last_status = status, !.last_filled = filled,
                             !.remaining = remaining,
                             !.reported = ParsedFilled0(p)]
    IN  IF IsTerminal(status)
        THEN [counted EXCEPT !.pc = "after_monitor", !.mon_exit = "terminal",
                             !.mon_status = status, !.mon_filled = filled]
        ELSE IF RemainingIsString(p)
        THEN [counted EXCEPT !.pc = "raised"]
        ELSE IF NothingRemains(status, remaining)
        THEN [counted EXCEPT !.pc = "after_monitor", !.mon_exit = "remaining",
                             !.mon_status = IF status = "" THEN "filled" ELSE status,
                             !.mon_filled = IF filled = 0 THEN l.shares ELSE filled]
        ELSE [counted EXCEPT !.clock = @ + d]

(* One iteration in which a JSON object reaches parse_order_info. *)
Poll(in, d) ==
    /\ lc.pc = "monitor"
    /\ lc.clock < MonitorTimeout
    /\ lc' = PolledLifecycle(lc, in.info, d, in.via = "rest")
    /\ UNCHANGED <<now, state, order_state, tasks, lastEval, stream, aux>>

(* One iteration in which a truthy value that is no JSON object reaches  *)
(* parse_order_info: order_info.get raises.                              *)
PollMalformed(via) ==
    /\ lc.pc = "monitor"
    /\ lc.clock < MonitorTimeout
    /\ lc' = [lc EXCEPT !.pc = "raised", !.calls.poll = @ + 1,
                        !.calls.rest = IF via = "rest" THEN @ + 1 ELSE @]
    /\ UNCHANGED <<now, state, order_state, tasks, lastEval, stream, aux>>

(* Line 234: the deadline has passed. *)
MonitorTimesOut ==
    /\ lc.pc = "monitor"
    /\ lc.clock >= MonitorTimeout
    /\ lc' = [lc EXCEPT !.pc = "after_monitor", !.mon_exit = "timeout",
                        !.mon_status = lc.last_status, !.mon_filled = lc.last_filled]
    /\ UNCHANGED <<now, state, order_state, tasks, lastEval, stream, aux>>

----------------------------------------------------------------------------
(* Lines 392-404 and cancel_order.                                         *)

(* What cancel_order meets: the client has no cancel_order, the call       *)
(* raises, or the call returns.                                            *)
CancelResults == {"unsupported", "raises", "ok"}

(* StatusAfterCancel that reports cancelled whatever cancel_order says. *)
StatusAfterCancel_Always(status, c) == "cancelled"

(* The status after the cancel attempt. *)
StatusAfterCancel(status, c) ==
    IF c = "ok" THEN "cancelled" ELSE status

AfterMonitor(c) ==
    /\ lc.pc = "after_monitor"
    /\ lc' = IF lc.mon_status \in TerminalFill \cup TerminalNonFill
             THEN [lc EXCEPT !.pc = "done", !.result = <<lc.mon_status, lc.mon_filled>>]
             ELSE [lc EXCEPT !.pc = "done", !.cancel = c,
                             !.calls.attempts = @ + 1,
                             !.calls.cancel = IF c = "unsupported" THEN @ ELSE @ + 1,
                             !.result = <<StatusAfterCancel(lc.mon_status, c), lc.mon_filled>>]
    /\ UNCHANGED <<now, state, order_state, tasks, lastEval, stream, aux>>

----------------------------------------------------------------------------

(* One invocation of execute_trade_lagger on its own. *)
InitLifecycle ==
    /\ TriggerInit
    /\ \E in \in Inputs : lc = NewLifecycle(in[1], in[2])

NextLifecycle ==
    \/ Start
    \/ CreateOrder
    \/ \E exc \in Raised : CreateOrderRaises(exc)
    \/ \E hasId \in BOOLEAN : PostOrder(hasId)
    \/ \E exc \in Raised : PostOrderRaises(exc)
    \/ \E in \in PollInputs, d \in PollDurations : PollFails(in, d)
    \/ \E in \in PayloadInputs, d \in PollDurations : Poll(in, d)
    \/ \E via \in {"client", "rest"} : PollMalformed(via)
    \/ MonitorTimesOut
    \/ \E c \in CancelResults : AfterMonitor(c)

SpecLifecycle == InitLifecycle /\ [][NextLifecycle]_vars

----------------------------------------------------------------------------
(* Claims about the order lifecycle.                                       *)

(* C6 as stated: whenever reference price + offset exceeds the ceiling the *)
(* lifecycle ends with the capped outcome, filled 0 and no venue call.     *)
C6_CapOnSum ==
    (lc.pc # "start" /\ lc.ref + lc.offset > CEILING_CENTS * 10)
        => (lc.pc = "done" /\ lc.result = <<"skipped_limit", 0>> /\ lc.calls = NoCalls)

(* C6, amended: whenever the limit price, reference price + offset rounded *)
(* to 2 decimals, exceeds the ceiling, the lifecycle ends with the capped  *)
(* outcome, filled 0 and no venue call; no order is created with a limit   *)
(* price above the ceiling.                                                *)
C6_CapOnRoundedLimit ==
    /\ (lc.pc # "start" /\ RoundedLimit(lc.ref, lc.offset) > CEILING_CENTS)
           => (lc.pc = "done" /\ lc.result = <<"skipped_limit", 0>> /\ lc.calls = NoCalls)
    /\ (lc.calls.create > 0 \/ lc.calls.post > 0) => lc.limit <= CEILING_CENTS

(* Reference price 0.88, offset 0.05: capped, nothing submitted. *)
C6_Witness ==
    /\ lc.pc = "done"
    /\ lc.ref = 880 /\ lc.offset = 50
    /\ lc.result = <<"skipped_limit", 0>>
    /\ lc.calls = NoCalls

(* C7 as stated: the monitor returns only after a poll that observed a     *)
(* terminal status or when the timeout has elapsed.                        *)
C7_TerminalOrTimeout ==
    lc.pc = "after_monitor"
        => (lc.last_status \in TerminalFill \cup TerminalNonFill \/ lc.clock >= MonitorTimeout)

(* C7, amended: the monitor returns only after a poll that observed a      *)
(* terminal status, after a poll that showed no remaining quantity, or     *)
(* when the timeout has elapsed.                                           *)
C7_TerminalRemainingOrTimeout ==
    lc.pc = "after_monitor"
        => \/ lc.last_status \in TerminalFill \cup TerminalNonFill
           \/ lc.remaining # None /\ lc.remaining <= 0
           \/ lc.clock >= MonitorTimeout

(* The monitor has returned before the timeout on a live order of which    *)
(* nothing remains.                                                        *)
C7_Witness ==
    /\ lc.pc = "after_monitor"
    /\ lc.last_status = "live"
    /\ lc.clock < MonitorTimeout
    /\ lc.remaining # None /\ lc.remaining <= 0

(* C8: after a timeout without a terminal status cancel_order is called    *)
(* exactly once (at most one venue cancel request); a confirmed cancel     *)
(* gives (cancelled, last filled quantity), an unsupported or raising      *)
(* cancel gives the last observed status and filled quantity unchanged.    *)
C8_TimeoutCancel ==
    (lc.pc = "done" /\ lc.mon_exit = "timeout")
        => /\ lc.calls.attempts = 1
           /\ lc.calls.cancel = IF lc.cancel = "unsupported" THEN 0 ELSE 1
           /\ lc.cancel = "ok" => lc.result = <<"cancelled", lc.last_filled>>
           /\ lc.cancel \in {"unsupported", "raises"}
                  => lc.result = <<lc.last_status, lc.last_filled>>

(* A timeout after a partial fill, and the cancel confirmed. *)
C8_Witness ==
    /\ lc.pc = "done"
    /\ lc.mon_exit = "timeout"
    /\ lc.last_status = "live"
    /\ lc.cancel = "ok"
    /\ lc.result = <<"cancelled", 400>>

(* C9 as stated: after a poll that reported a status in {filled, closed,   *)
(* matched} the lifecycle returns the outcome filled.                      *)
C9_ReturnsFilled ==
    (lc.pc = "done" /\ lc.mon_exit # "none" /\ lc.last_status \in TerminalFill)
        => lc.result[1] = "filled"

(* C9, amended: a poll that reports a status in {filled, closed, matched}  *)
(* ends the monitor at that poll, and the lifecycle returns that status as *)
(* reported with the venue-reported filled quantity (the requested size    *)
(* when the payload yields none); no cancel follows.                       *)
C9_ReturnsReportedStatus ==
    /\ lc.pc = "monitor" => lc.last_status \notin TerminalFill
    /\ (lc.pc \in {"after_monitor", "done"} /\ lc.last_status \in TerminalFill)
           => /\ lc.mon_exit = "terminal"
              /\ lc.calls.attempts = 0 /\ lc.calls.cancel = 0
              /\ lc.pc = "done"
                     => lc.result = <<lc.last_status,
                                      IF lc.reported > 0 THEN lc.reported ELSE lc.shares>>

(* status = matched with a filled size on the first poll. *)
C9_Witness ==
    /\ lc.pc = "done"
    /\ lc.calls.poll = 1
    /\ lc.last_status = "matched"
    /\ lc.reported = 400
    /\ lc.result = <<"matched", 400>>

(* C10: a poll that gives nothing neither ends the monitor loop nor        *)
(* raises, and leaves the last observed status and filled quantity as they *)
(* were; at the timeout the monitor reports those.                         *)
C10_FailedPollGoesOn ==
    [][/\ \A in \in PollInputs, d \in PollDurations :
              PollFails(in, d)
                  => /\ lc'.pc = "monitor"
                     /\ lc'.last_status = lc.last_status
                     /\ lc'.last_filled = lc.last_filled
       /\ MonitorTimesOut
              => /\ lc'.mon_status = lc.last_status
                 /\ lc'.mon_filled = lc.last_filled]_vars

(* A timeout after a poll that reported a partial fill and a poll that     *)
(* gave nothing.                                                           *)
C10_Witness ==
    /\ lc.pc = "after_monitor"
    /\ lc.mon_exit = "timeout"
    /\ lc.failed >= 1
    /\ lc.calls.poll > lc.failed
    /\ lc.mon_status = "live"
    /\ lc.mon_filled = 400

(* C11: a submission that the venue rejects with an exception (a           *)
(* PolyApiException of create_order or post_order) ends the lifecycle with *)
(* exactly one outcome chosen by the error text: insufficient_balance when *)
(* it holds balance; otherwise allowance_needed when it holds allowance or *)
(* approval; otherwise submit_error; the filled quantity is 0.             *)
C11_ErrorClassification ==
    \A exc \in lc.raised :
        exc.poly =>
            /\ lc.pc = "done"
            /\ lc.result[2] = 0
            /\ lc.result[1] =
                   IF "balance" \in exc.words THEN "insufficient_balance"
                   ELSE IF exc.words \cap {"allowance", "approval"} # {}
                        THEN "allowance_needed"
                        ELSE "submit_error"

(* post_order was rejected with a text that holds both balance and        *)
(* allowance.                                                              *)
C11_Witness ==
    /\ lc.pc = "done"
    /\ lc.calls.post = 1
    /\ lc.raised = {[poly |-> TRUE, words |-> {"balance", "allowance"}]}
    /\ lc.result = <<"insufficient_balance", 0>>

SubmitFailures == {"submit_error", "insufficient_balance", "allowance_needed", "no_order_id"}

(* C12: one invocation calls post_order at most once, and after a rejected *)
(* or id-less submission it makes no further venue call: no second         *)
(* create_order or post_order, no status poll, no cancel.                  *)
C12_NoRetry ==
    /\ lc.calls.post <= 1
    /\ lc.calls.create <= 1
    /\ (lc.raised # {} \/ lc.result[1] \in SubmitFailures)
           => /\ lc.pc = "done"
              /\ lc.calls.poll = 0 /\ lc.calls.rest = 0
              /\ lc.calls.cancel = 0 /\ lc.calls.attempts = 0

(* The response of post_order held no order id. *)
C12_Witness ==
    /\ lc.pc = "done"
    /\ lc.calls.create = 1 /\ lc.calls.post = 1
    /\ lc.result = <<"no_order_id", 0>>

(* C13 as stated: execute_trade_lagger hands an outcome back for every     *)
(* behaviour of the venue and never ends by raising an exception.          *)
C13_NeverRaises ==
    lc.pc # "raised"

(* C16: the filled quantity parse_order_info reports is the requested size *)
(* when the payload yields no positive filled quantity (from filledSize or *)
(* the fills list) and its status is filled, closed or matched; for any    *)
(* other status it is the quantity of the payload, never the requested     *)
(* size put in its place.                                                  *)
C16_FillFallback ==
    lc.calls.poll > lc.failed /\ lc.last_status # NoStatus
        => lc.last_filled =
               IF lc.reported <= 0 /\ lc.last_status \in TerminalFill
               THEN lc.shares
               ELSE lc.reported

(* A poll reported matched with no filled quantity: the requested size is  *)
(* reported.                                                               *)
C16_Witness ==
    /\ lc.last_status = "matched"
    /\ lc.reported = 0
    /\ lc.shares > 0
    /\ lc.last_filled = lc.shares

(* A poll reported live with no filled quantity: 0 is reported. *)
C16_NoFallback ==
    /\ lc.last_status = "live"
    /\ lc.reported = 0
    /\ lc.shares > 0
    /\ lc.last_filled = 0

----------------------------------------------------------------------------
(* The exit order: cash_out and cash_out_lagger of helpers.py.  One        *)
(* invocation is held in lc, as the entry order is; monitor_order is the   *)
(* same function, here called with a timeout of 120 seconds, for which     *)
(* MonitorTimeout stands.  Both functions return nothing.                  *)

CashOutOps == {"cash_out", "cash_out_lagger"}

(* The filled_shares the caller hands in, in hundredths of a share. *)
FilledShares == {-100, 0, 400}

(* The limit_price the caller of cash_out_lagger hands in, in cents. *)
ExitLimit == 50

NewCashOut(op, filled_shares) ==
    [NewLifecycle(0, 0) EXCEPT !.op = op, !.pc = "co_start", !.shares = filled_shares,
                               !.limit = IF op = "cash_out_lagger" THEN ExitLimit ELSE 0]

(* CashOutSkipped that lets a filled quantity of 0 through. *)
CashOutSkipped_OnlyNegative(filled_shares) == filled_shares < 0

(* if filled_shares <= 0: return *)
CashOutSkipped(filled_shares) == filled_shares <= 0

CashOutStart ==
    /\ lc.pc = "co_start"
    /\ lc.op \in CashOutOps
    /\ lc' = IF CashOutSkipped(lc.shares) THEN [lc EXCEPT !.pc = "done"]
             ELSE IF lc.op = "cash_out" THEN [lc EXCEPT !.pc = "co_quote"]
             ELSE [lc EXCEPT !.pc = "co_create"]
    /\ UNCHANGED <<now, state, order_state, tasks, lastEval, stream, aux>>

(* What cash_out meets when it looks for the current price: no tracker, a  *)
(* tracker without history or one with a cached price; and what            *)
(* client.get_price gives for the BUY and the SELL side (None: it raises). *)
QuoteInputs ==
    [tracker : {"none", "empty", "has"}, cached : {50}, buy : {None, 50}, sell : {None, 2}]

(* Lines 251-257: the current price (None when none is to be had) and the  *)
(* number of client.get_price calls made for it.                           *)
CurrentPrice(q) ==
    CASE q.tracker = "has" -> [price |-> q.cached, calls |-> 0]
      [] q.tracker = "empty" /\ q.buy # None -> [price |-> q.buy, calls |-> 1]
      [] q.tracker = "empty" /\ q.buy = None -> [price |-> q.sell, calls |-> 2]
      [] OTHER -> [price |-> q.sell, calls |-> 1]

(* round(max(0.01, current_price - 0.02), 2), in cents. *)
UndercutLimit(price) == IF price - 2 > 1 THEN price - 2 ELSE 1

CashOutQuote(q) ==
    /\ lc.pc = "co_quote"
    /\ LET cur == CurrentPrice(q)
       IN  lc' = IF cur.price = None
                 THEN [lc EXCEPT !.pc = "done", !.calls.quote = @ + cur.calls]
                 ELSE [lc EXCEPT !.pc = "co_create", !.calls.quote = @ + cur.calls,
                                 !.limit = UndercutLimit(cur.price)]
    /\ UNCHANGED <<now, state, order_state, tasks, lastEval, stream, aux>>

(* client.create_order returns or raises; a raise is printed. *)
CashOutCreate(raises) ==
    /\ lc.pc = "co_create"
    /\ lc' = [lc EXCEPT !.pc = IF raises THEN "done" ELSE "co_post",
                        !.calls.create = @ + 1]
    /\ UNCHANGED <<now, state, order_state, tasks, lastEval, stream, aux>>

(* client.post_order raises, or returns a response with or without an     *)
(* order id.                                                               *)
CashOutPost(resp) ==
    /\ lc.pc = "co_post"
    /\ lc' = [lc EXCEPT !.pc = IF resp = "id" THEN "monitor" ELSE "done",
                        !.calls.post = @ + 1]
    /\ UNCHANGED <<now, state, order_state, tasks, lastEval, stream, aux>>

(* monitor_order has returned: the status is printed, nothing else. *)
CashOutAfterMonitor ==
    /\ lc.pc = "after_monitor"
    /\ lc.op \in CashOutOps
    /\ lc' = [lc EXCEPT !.pc = "done"]
    /\ UNCHANGED <<now, state, order_state, tasks, lastEval, stream, aux>>

(* monitor_order has raised: except Exception prints it. *)
CashOutExcept ==
    /\ lc.pc = "raised"
    /\ lc.op \in CashOutOps
    /\ lc' = [lc EXCEPT !.pc = "done"]
    /\ UNCHANGED <<now, state, order_state, tasks, lastEval, stream, aux>>

InitCashOut ==
    /\ TriggerInit
    /\ \E op \in CashOutOps, f \in FilledShares : lc = NewCashOut(op, f)

NextCashOut ==
    \/ CashOutStart
    \/ \E q \in QuoteInputs : CashOutQuote(q)
    \/ \E raises \in BOOLEAN : CashOutCreate(raises)
    \/ \E resp \in {"id", "no_id", "raises"} : CashOutPost(resp)
    \/ \E in \in PollInputs, d \in PollDurations : PollFails(in, d)
    \/ \E in \in PayloadInputs, d \in PollDurations : Poll(in, d)
    \/ \E via \in {"client", "rest"} : PollMalformed(via)
    \/ MonitorTimesOut
    \/ CashOutAfterMonitor
    \/ CashOutExcept

SpecCashOut == InitCashOut /\ [][NextCashOut]_vars

----------------------------------------------------------------------------
(* Claims about the exit order.                                            *)

(* C14: a cash-out called with a filled quantity <= 0 is skipped entirely: *)
(* it ends with no venue call (no quote, no create_order, no post_order,   *)
(* no poll, no cancel) and with nothing changed.                           *)
C14_CashOutSkipped ==
    (lc.pc # "co_start" /\ lc.shares <= 0)
        => lc = [NewCashOut(lc.op, lc.shares) EXCEPT !.pc = "done"]

(* cash_out was called with a filled quantity of 0 and has returned. *)
C14_Witness ==
    /\ lc.op = "cash_out"
    /\ lc.shares = 0
    /\ lc.pc = "done"
    /\ lc.calls = NoCalls

(* C15 as stated: the exit order goes through the monitor and timeout      *)
(* logic of the entry order: it is polled until a terminal status or the   *)
(* timeout, and after a timeout without a terminal status a cancel request *)
(* is issued for it.                                                       *)
C15_ExitTimeoutCancels ==
    (lc.pc = "done" /\ lc.mon_exit = "timeout"
         /\ lc.mon_status \notin TerminalFill \cup TerminalNonFill)
        => lc.calls.attempts = 1

----------------------------------------------------------------------------
(* One TokenState on its own: the calls the stream handler and the         *)
(* presenter make on it, at the clock values of TrackerTimes.  The         *)
(* tracker is state[LEADER]; lastEval holds the last call and what it      *)
(* returned.                                                               *)

(* Bounds of the tracker: the lengths the two histories are fed to. *)
MaxHist == 3
MaxAsks == 2

(* The values of _now_s() at which something happens. *)
TrackerTimes == {0, 30, 61, 95, 299, 300}

(* The timestamps and prices of the messages; a message's timestamp is not *)
(* ahead of the clock, and messages arrive in any order of timestamps.     *)
TradeTimes == {0, 30, 61}
TradePrices == {40, 55}
AskTimes == {0}
AskPrices == {40, 55}
BidPrices == {44}

(* The side and size a last_trade_price message of a price carries. *)
TradeMsgs ==
    { [price |-> 40, side |-> NoSide, size |-> None],
      [price |-> 55, side |-> "BUY", size |-> 2] }

(* Book snapshots: the bid levels, the ask levels and the last trade price. *)
Books ==
    { [bids |-> <<44, 43>>, asks |-> <<40, 56>>, last_trade_price |-> None],
      [bids |-> <<>>, asks |-> <<55, 56>>, last_trade_price |-> 40],
      [bids |-> <<44, 43>>, asks |-> <<>>, last_trade_price |-> None] }

NoCall == [op |-> "none", at |-> 0, cur |-> None, old |-> None]

(* The clock moves on to a later value of TrackerTimes. *)
TrackerTick(t) ==
    /\ t > now
    /\ Tick(t - now)

(* A last_trade_price message with timestamp ts_s. *)
RecordTrade(ts_s, price, side, size) ==
    /\ ts_s <= now
    /\ Len(state[LEADER].trade_history) < MaxHist
    /\ state' = [state EXCEPT ![LEADER] = update_from_last_trade(@, ts_s, price, side, size)]
    /\ lastEval' = [NoCall EXCEPT !.op = "update_from_last_trade", !.at = now]
    /\ UNCHANGED <<now, order_state, tasks, lc, stream, aux>>

(* One entry of a price_change message with timestamp ts_s; lastEval holds *)
(* the ask it brought and the best ask before it.                          *)
RecordAsk(ts_s, best_bid, best_ask) ==
    /\ ts_s <= now
    /\ Len(state[LEADER].ask_history) < MaxAsks
    /\ state' = [state EXCEPT ![LEADER] = update_from_price_change(@, ts_s, best_bid, best_ask)]
    /\ lastEval' = [op |-> "update_from_price_change", at |-> now,
                    cur |-> best_ask, old |-> state[LEADER].best_ask]
    /\ UNCHANGED <<now, order_state, tasks, lc, stream, aux>>

(* A book message with timestamp ts_s; lastEval holds the ask it brought *)
(* and the best ask before it.                                           *)
RecordBook(ts_s, book) ==
    /\ ts_s <= now
    /\ Len(state[LEADER].trade_history) < MaxHist
    /\ Len(state[LEADER].ask_history) < MaxAsks
    /\ state' = [state EXCEPT ![LEADER] =
                     update_from_book(@, ts_s, book.bids, book.asks, book.last_trade_price)]
    /\ lastEval' = [op |-> "update_from_book", at |-> now,
                    cur |-> IF book.asks # <<>> THEN book.asks[1] ELSE None,
                    old |-> state[LEADER].best_ask]
    /\ UNCHANGED <<now, order_state, tasks, lc, stream, aux>>

(* get_current_and_old_trade() is called: it trims and answers. *)
QueryTrade ==
    /\ LET q == get_current_and_old_trade(state[LEADER], now)
       IN  /\ state' = [state EXCEPT ![LEADER] = q.st]
           /\ lastEval' = [op |-> "get_current_and_old_trade", at |-> now,
                           cur |-> q.cur, old |-> q.old]
    /\ UNCHANGED <<now, order_state, tasks, lc, stream, aux>>

(* get_current_and_old_ask() is called: it trims and answers. *)
QueryAsk ==
    /\ LET q == get_current_and_old_ask(state[LEADER], now)
       IN  /\ state' = [state EXCEPT ![LEADER] = q.st]
           /\ lastEval' = [op |-> "get_current_and_old_ask", at |-> now,
                           cur |-> q.cur, old |-> q.old]
    /\ UNCHANGED <<now, order_state, tasks, lc, stream, aux>>

InitTracker ==
    /\ now = 0
    /\ state = [aid \in AssetIds |-> NewTokenState]
    /\ order_state = [active |-> FALSE, last_status |-> "",
                      cooldown_until |-> 0 + TRADE_COOLDOWN_SECONDS]
    /\ tasks = <<>>
    /\ lastEval = NoCall
    /\ lc = [pc |-> "idle"]
    /\ stream = NewStream
    /\ captures = <<>>
    /\ journal = NewJournal
    /\ procs = NewProcs

NextTracker ==
    \/ \E t \in TrackerTimes : TrackerTick(t)
    \/ \E ts_s \in TradeTimes, m \in TradeMsgs : RecordTrade(ts_s, m.price, m.side, m.size)
    \/ \E ts_s \in AskTimes, book \in Books : RecordBook(ts_s, book)
    \/ \E ts_s \in AskTimes, bid \in BidPrices, ask \in AskPrices : RecordAsk(ts_s, bid, ask)
    \/ QueryTrade
    \/ QueryAsk

SpecTracker == InitTracker /\ [][NextTracker]_vars

----------------------------------------------------------------------------
(* Claims about the tracker.                                               *)

(* The retained trade history, its newest entry, and the entry the lag     *)
(* selection rule names: the last one of the longest run of entries from   *)
(* the oldest on that are all at least a lookback old (0 when the oldest   *)
(* is younger).                                                            *)
Retained == state[LEADER].trade_history

Newest == Retained[Len(Retained)]

LaggedIndex ==
    LET aged == { i \in 1..Len(Retained) :
                     \A j \in 1..i : now - Retained[j].ts >= LOOKBACK_SECONDS }
    IN  IF aged = {} THEN 0 ELSE CHOOSE i \in aged : \A k \in aged : k <= i

(* get_current_and_old_trade has just answered, on a history with entries. *)
TradeAnswered ==
    /\ lastEval.op = "get_current_and_old_trade"
    /\ lastEval.at = now
    /\ Retained # <<>>

(* C17: when the newest observation is not stale, the query returns        *)
(* current = the newest trade price and lagged = the price of the last     *)
(* observation reached scanning from the oldest while the age is at least  *)
(* the horizon, stopping at the first younger one, or lagged = current     *)
(* when the oldest retained observation is already younger.                *)
C17_LagSelection ==
    (TradeAnswered /\ now - Newest.ts < STALE_OLD_SECONDS)
        => /\ lastEval.cur = Newest.price
           /\ lastEval.old = IF LaggedIndex = 0 THEN Newest.price
                             ELSE Retained[LaggedIndex].price

(* Trades at t=0 (0.40), t=30 (0.40), t=61 (0.55), queried at t=61, give   *)
(* (0.55, 0.40).                                                           *)
C17_Witness ==
    /\ TradeAnswered
    /\ now = 61
    /\ Retained = << [ts |-> 0, price |-> 40], [ts |-> 30, price |-> 40],
                     [ts |-> 61, price |-> 55] >>
    /\ lastEval.cur = 55
    /\ lastEval.old = 40

(* C18: when the newest trade observation is at least 300 seconds old at   *)
(* query time the query returns (current, null) with current the newest    *)
(* trade price; when it is less than 300 seconds old lagged is not null.   *)
C18_StalenessGate ==
    TradeAnswered
        => /\ lastEval.cur = Newest.price
           /\ (now - Newest.ts >= STALE_OLD_SECONDS) <=> (lastEval.old = None)

(* The newest trade is exactly 300 seconds old: (0.55, null). *)
C18_Witness ==
    /\ TradeAnswered
    /\ now - Newest.ts = STALE_OLD_SECONDS
    /\ lastEval.cur = 55
    /\ lastEval.old = None

(* The newest trade is 299 seconds old: lagged is its price. *)
C18_NotYetStale ==
    /\ TradeAnswered
    /\ now - Newest.ts = STALE_OLD_SECONDS - 1
    /\ lastEval.old = Newest.price

(* C19 as stated: the observation whose price is returned as lagged never  *)
(* has a timestamp newer than that of the observation returned as current. *)
C19_LaggedNotNewer ==
    (TradeAnswered /\ lastEval.old # None /\ LaggedIndex # 0)
        => Retained[LaggedIndex].ts <= Newest.ts

(* C20 as stated: once an observation has been appended to a window (the   *)
(* trade history or the ask history) that window is never empty again.     *)
C20_WindowsNeverEmpty ==
    /\ state[LEADER].last_trade_price # None => state[LEADER].trade_history # <<>>
    /\ state[LEADER].best_ask # None => state[LEADER].ask_history # <<>>

(* A history is in timestamp order, front to back. *)
Sorted(h) == \A i \in 1..(Len(h) - 1) : h[i].ts <= h[i + 1].ts

(* C21 as stated: the trade history and the ask history of a tracker are   *)
(* non-decreasing in timestamp from front to back, whatever the sequence   *)
(* of feed messages.                                                       *)
C21_WindowsSorted ==
    /\ Sorted(state[LEADER].trade_history)
    /\ Sorted(state[LEADER].ask_history)

(* Timestamps a message applied in the current state may carry: the *)
(* clock's value and the oldest one.                                *)
FeedTimes == {0, now}

(* C22: a book snapshot or a price-change entry whose best ask is the      *)
(* current best ask appends nothing to the ask history, and feeding the    *)
(* same book snapshot a second time leaves the ask history as the first    *)
(* feed left it, so that the two feeds together make it at most one entry  *)
(* longer.                                                                 *)
C22_DeNoising ==
    LET st == state[LEADER]
    IN  \A ts \in FeedTimes :
            /\ st.best_ask # None =>
                   /\ \A bid \in BidPrices \cup {None} :
                          update_from_price_change(st, ts, bid, st.best_ask).ask_history
                              = st.ask_history
                   /\ \A ltp \in {None, 40} :
                          update_from_book(st, ts, <<44>>, <<st.best_ask, 56>>, ltp).ask_history
                              = st.ask_history
            /\ \A book \in Books :
                   LET once  == update_from_book(st, ts, book.bids, book.asks,
                                                 book.last_trade_price)
                       twice == update_from_book(once, ts, book.bids, book.asks,
                                                 book.last_trade_price)
                   IN  /\ twice.ask_history = once.ask_history
                       /\ Len(twice.ask_history) <= Len(st.ask_history) + 1

(* A book snapshot that repeats the best ask has been applied to a tracker *)
(* that holds one ask, and the history still holds that one entry.         *)
C22_Witness ==
    /\ lastEval.op = "update_from_book"
    /\ lastEval.at = now
    /\ lastEval.cur # None
    /\ lastEval.cur = lastEval.old
    /\ state[LEADER].best_ask = lastEval.cur
    /\ Len(state[LEADER].ask_history) = 1

(* The retained ask history and the entry the scan of the ask query ends   *)
(* on: the last one of the longest run of entries from the oldest on that  *)
(* are all at least a lookback old (0 when the oldest is younger).         *)
RetainedAsks == state[LEADER].ask_history

AskLaggedIndex ==
    LET aged == { i \in 1..Len(RetainedAsks) :
                     \A j \in 1..i : now - RetainedAsks[j].ts >= LOOKBACK_SECONDS }
    IN  IF aged = {} THEN 0 ELSE CHOOSE i \in aged : \A k \in aged : k <= i

(* get_current_and_old_ask has just answered. *)
AskAnswered ==
    /\ lastEval.op = "get_current_and_old_ask"
    /\ lastEval.at = now

(* C23 as stated: on the same observations and at the same time, the ask   *)
(* query and the trade query return the same (current, lagged).            *)
C23_SameAnswer ==
    LET st == state[LEADER]
    IN  (/\ st.trade_history # <<>>
         /\ st.ask_history = st.trade_history
         /\ st.best_ask = st.last_trade_price)
            => LET a == get_current_and_old_ask(st, now)
                   t == get_current_and_old_trade(st, now)
               IN  a.cur = t.cur /\ a.old = t.old

(* C23: the ask query returns current = the best ask and, over the ask     *)
(* history trimmed to the lookback, lagged = the price of the last entry   *)
(* reached scanning from the oldest while the age is at least the          *)
(* lookback, or the price of the oldest retained entry when that entry is  *)
(* already younger, or nothing when no entry is retained.                  *)
C23_AskLagSelection ==
    AskAnswered
        => /\ lastEval.cur = state[LEADER].best_ask
           /\ lastEval.old =
                  IF RetainedAsks = <<>> THEN None
                  ELSE IF AskLaggedIndex = 0 THEN RetainedAsks[1].price
                  ELSE RetainedAsks[AskLaggedIndex].price

(* The ask query has answered with two asks retained, both younger than    *)
(* the lookback: lagged is the oldest one, not the current one.            *)
C23_Witness ==
    /\ AskAnswered
    /\ Len(RetainedAsks) = 2
    /\ AskLaggedIndex = 0
    /\ lastEval.cur = 55
    /\ lastEval.old = 40

(* The fields of a tracker that update_from_price_change may write. *)
QuoteFields == {"best_bid", "best_ask", "ask_history", "last_update_ts_s"}

(* C25: a price-change entry leaves the trade history and the last-trade   *)
(* price, side, size and timestamp as they were; of a tracker it changes   *)
(* the best bid, the best ask, the ask history and the last-update         *)
(* timestamp only.                                                         *)
C25_NoTradeSideEffect ==
    [][(\E ts_s \in AskTimes, bid \in BidPrices, ask \in AskPrices : RecordAsk(ts_s, bid, ask))
          => /\ \A f \in (DOMAIN state[LEADER]) \ QuoteFields :
                    state'[LEADER][f] = state[LEADER][f]
             /\ state'[LAGGER] = state[LAGGER]]_vars

(* A price-change entry with a new ask has been applied to a tracker that  *)
(* holds a trade with side and size.                                       *)
C25_Witness ==
    /\ lastEval.op = "update_from_price_change"
    /\ lastEval.at = now
    /\ lastEval.cur # lastEval.old
    /\ state[LEADER].best_ask = lastEval.cur
    /\ state[LEADER].trade_history # <<>>
    /\ state[LEADER].last_trade_side = "BUY"
    /\ state[LEADER].last_trade_size = 110

----------------------------------------------------------------------------
(* The connection loop of ws_run and the frames it reads.                  *)

(* Frames read from the stream, and connection failures in a row. *)
MaxFrames == 3
MaxFailures == 7

RECONNECT_MAX_BACKOFF == 30

(* An asset id that is not subscribed. *)
OTHER_AID == "OTHER"

(* _ts_ms_to_s: the timestamp of a message, in milliseconds, as seconds;   *)
(* the local clock for a timestamp that is missing or no number.           *)
_ts_ms_to_s(ts_ms, now_s) ==
    IF ts_ms = None \/ ts_ms = NotANumber THEN now_s ELSE ts_ms \div 1000

(* An element of a decoded frame; is_dict is FALSE for one that is no      *)
(* JSON object, and a key that is absent holds None (msg.get).             *)
NoMsg ==
    [is_dict |-> FALSE, event_type |-> "", asset_id |-> "", timestamp |-> None,
     price |-> None, side |-> NoSide, size |-> None,
     bids |-> <<>>, asks |-> <<>>, last_trade_price |-> None, price_changes |-> <<>>]

LastTradeMsg(aid, ts_ms, price, side, size) ==
    [NoMsg EXCEPT !.is_dict = TRUE, !.event_type = "last_trade_price", !.asset_id = aid,
                  !.timestamp = ts_ms, !.price = price, !.side = side, !.size = size]

BookMsg(aid, ts_ms, bids, asks, ltp) ==
    [NoMsg EXCEPT !.is_dict = TRUE, !.event_type = "book", !.asset_id = aid,
                  !.timestamp = ts_ms, !.bids = bids, !.asks = asks,
                  !.last_trade_price = ltp]

(* An entry of price_changes. *)
NoEntry == [is_dict |-> FALSE, asset_id |-> "", best_bid |-> None, best_ask |-> None]

PriceChangeMsg(ts_ms, pcs) ==
    [NoMsg EXCEPT !.is_dict = TRUE, !.event_type = "price_change",
                  !.timestamp = ts_ms, !.price_changes = pcs]

(* The messages of the frames: trades of the leader and the lagger, a      *)
(* trade of price 0, two books, a price_change with an entry that is no    *)
(* object and one of an asset that is not subscribed, a trade of such an   *)
(* asset, a tick_size_change and an element that is no object.             *)
MsgLeader40 == LastTradeMsg(LEADER, 500, 40, NoSide, None)
MsgLagger50 == LastTradeMsg(LAGGER, 0, 50, "SELL", 2)
MsgLeader55 == LastTradeMsg(LEADER, None, 55, "BUY", 2)
MsgZero == LastTradeMsg(LEADER, NotANumber, 0, NoSide, NotANumber)
MsgBook == BookMsg(LAGGER, 0, <<54>>, <<56, 57>>, 50)
MsgLeaderBook == BookMsg(LEADER, None, <<54>>, <<70>>, 55)
MsgOtherBook == BookMsg(OTHER_AID, 0, <<54>>, <<56, 57>>, 50)
MsgPriceChange ==
    PriceChangeMsg(None, << NoEntry,
                            [NoEntry EXCEPT !.is_dict = TRUE, !.asset_id = OTHER_AID,
                                            !.best_bid = 20, !.best_ask = 21],
                            [NoEntry EXCEPT !.is_dict = TRUE, !.asset_id = LEADER,
                                            !.best_bid = 44, !.best_ask = 45] >>)
MsgOtherTrade == LastTradeMsg(OTHER_AID, 0, 55, "BUY", 2)
MsgTick == [NoMsg EXCEPT !.is_dict = TRUE, !.event_type = "tick_size_change",
                         !.asset_id = LEADER, !.timestamp = 0]

Messages ==
    { MsgLeader40, MsgLagger50, MsgLeader55, MsgZero, MsgBook, MsgLeaderBook, MsgOtherBook,
      MsgPriceChange, MsgOtherTrade, MsgTick, NoMsg }

(* The messages the loop over events passes over. *)
Ignored == { MsgOtherBook, MsgOtherTrade, MsgTick, NoMsg }

(* A frame: text that json.loads takes or not, and what it decodes to, a   *)
(* single value (obj) or a list of values.                                 *)
InvalidFrame == [valid |-> FALSE, is_list |-> FALSE, obj |-> NoMsg, list |-> <<>>]
ObjectFrame(m) == [valid |-> TRUE, is_list |-> FALSE, obj |-> m, list |-> <<>>]
ListFrame(ms) == [valid |-> TRUE, is_list |-> TRUE, obj |-> NoMsg, list |-> ms]

Frames ==
    { InvalidFrame,
      ObjectFrame(MsgLeader40),
      ListFrame(<<MsgLagger50>>),
      ObjectFrame(MsgLeader55),
      ObjectFrame(MsgZero),
      ObjectFrame(MsgLeaderBook),
      ListFrame(<<MsgLeader40, NoMsg, MsgOtherTrade, MsgBook>>),
      ListFrame(<<MsgTick, MsgPriceChange>>) }

(* Decode that takes a list only. *)
Decode_ListOnly(frame) == frame.list

(* events = data if isinstance(data, list) else [data] *)
Decode(frame) == IF frame.is_list THEN frame.list ELSE <<frame.obj>>

(* The loop over price_changes: an entry that is no object or names an     *)
(* asset that is not subscribed is passed over.                            *)
RECURSIVE ApplyPriceChanges(_, _, _)
ApplyPriceChanges(s, pcs, ts_s) ==
    IF pcs = <<>> THEN s
    ELSE LET pc == Head(pcs)
             s1 == IF pc.is_dict /\ pc.asset_id \in AssetIds
                   THEN [s EXCEPT ![pc.asset_id] =
                            update_from_price_change(@, ts_s, pc.best_bid, pc.best_ask)]
                   ELSE s
         IN  ApplyPriceChanges(s1, Tail(pcs), ts_s)

(* One pass of the loop over events. *)
ApplyMessage(s, msg, now_s) ==
    IF ~msg.is_dict THEN s
    ELSE LET ts_s == _ts_ms_to_s(msg.timestamp, now_s)
         IN  IF msg.event_type = "book"
             THEN IF msg.asset_id \in AssetIds
                  THEN [s EXCEPT ![msg.asset_id] =
                           update_from_book(@, ts_s, msg.bids, msg.asks, msg.last_trade_price)]
                  ELSE s
             ELSE IF msg.event_type = "price_change"
             THEN ApplyPriceChanges(s, msg.price_changes, ts_s)
             ELSE IF msg.event_type = "last_trade_price"
             THEN IF msg.asset_id \in AssetIds
                  THEN [s EXCEPT ![msg.asset_id] =
                           update_from_last_trade(@, ts_s, msg.price, msg.side, msg.size)]
                  ELSE s
             ELSE s

(* ApplyMessages that ends the loop at an element that is no object. *)
RECURSIVE ApplyMessages_BreaksAtNonObject(_, _, _)
ApplyMessages_BreaksAtNonObject(s, events, now_s) ==
    IF events = <<>> \/ ~Head(events).is_dict THEN s
    ELSE ApplyMessages_BreaksAtNonObject(ApplyMessage(s, Head(events), now_s),
                                         Tail(events), now_s)

(* The loop over the events of a frame. *)
RECURSIVE ApplyMessages(_, _, _)
ApplyMessages(s, events, now_s) ==
    IF events = <<>> THEN s
    ELSE ApplyMessages(ApplyMessage(s, Head(events), now_s), Tail(events), now_s)

(* What one frame does to the trackers, the order state and the tasks: a   *)
(* frame that is no JSON is dropped, any other is applied and followed by  *)
(* one evaluation of the trigger.                                          *)
FrameResult(s, os, tk, frame, now_s) ==
    IF ~frame.valid
    THEN [state |-> s, order_state |-> os, tasks |-> tk, eval |-> "dropped"]
    ELSE LET s1 == ApplyMessages(s, Decode(frame), now_s)
             lead == get_current_and_old_trade(s1[LEADER], now_s)
             s2 == [s1 EXCEPT ![LEADER] = lead.st]
             ok == LeaderCondition(os, now_s, lead.cur, lead.old)
             lag == get_current_and_old_trade(s2[LAGGER], now_s)
             fire == ok /\ lag.old # None
         IN  [state |-> IF ok THEN [s2 EXCEPT ![LAGGER] = lag.st] ELSE s2,
              order_state |-> EvaluatedOrderState(os, now_s, ok, lag.old),
              tasks |-> IF fire THEN Append(tk, NewTask(now_s)) ELSE tk,
              eval |-> IF fire THEN "fired"
                       ELSE IF ok THEN "skipped_no_reference"
                       ELSE "not_triggered"]

(* The shape of a frame, for the record of the frames read. *)
Shape(frame) ==
    IF ~frame.valid THEN "invalid"
    ELSE IF ~frame.is_list THEN "object"
    ELSE IF Len(frame.list) = 1 THEN "list1"
    ELSE "list"

LastTwo(q) == IF Len(q) <= 2 THEN q ELSE SubSeq(q, Len(q) - 1, Len(q))

(* AfterFrame with a frame that is no JSON ending the connection. *)
AfterFrame_InvalidRaises(st, frame) ==
    IF frame.valid
    THEN [st EXCEPT !.frames = @ + 1, !.seen = LastTwo(Append(@, Shape(frame)))]
    ELSE [st EXCEPT !.frames = @ + 1, !.seen = LastTwo(Append(@, Shape(frame))),
                    !.pc = "sleeping", !.waits = Append(@, st.backoff), !.lost = "error"]

(* The connection loop after a frame: still reading, whatever the frame. *)
AfterFrame(st, frame) ==
    [st EXCEPT !.frames = @ + 1, !.seen = LastTwo(Append(@, Shape(frame)))]

(* OnFrame that waits for the order task before it takes a frame. *)
OnFrame_WaitsForTask(frame) ==
    /\ stream.pc = "open"
    /\ stream.frames < MaxFrames
    /\ ~order_state.active
    /\ LET r == FrameResult(state, order_state, tasks, frame, now)
       IN  /\ state' = r.state
           /\ order_state' = r.order_state
           /\ tasks' = r.tasks
           /\ lastEval' = r.eval
    /\ stream' = AfterFrame(stream, frame)
    /\ UNCHANGED <<now, lc, aux>>

(* One pass of async for raw in ws. *)
OnFrame(frame) ==
    /\ stream.pc = "open"
    /\ stream.frames < MaxFrames
    /\ LET r == FrameResult(state, order_state, tasks, frame, now)
       IN  /\ state' = r.state
           /\ order_state' = r.order_state
           /\ tasks' = r.tasks
           /\ lastEval' = r.eval
    /\ stream' = AfterFrame(stream, frame)
    /\ UNCHANGED <<now, lc, aux>>

(* websockets.connect succeeds and the subscription is sent: backoff = 1. *)
Subscribe ==
    /\ stream.pc = "connecting"
    /\ stream' = [stream EXCEPT !.pc = "open", !.backoff = 1, !.waits = <<>>,
                                !.lost = "none"]
    /\ UNCHANGED <<now, state, order_state, tasks, lastEval, lc, aux>>

(* websockets.connect or the send of the subscription raises: the except   *)
(* clause starts asyncio.sleep(backoff).                                   *)
ConnectFails ==
    /\ stream.pc = "connecting"
    /\ Len(stream.waits) < MaxFailures
    /\ stream' = [stream EXCEPT !.pc = "sleeping", !.waits = Append(@, stream.backoff),
                                !.lost = "error"]
    /\ UNCHANGED <<now, state, order_state, tasks, lastEval, lc, aux>>

(* The read of the next frame raises (the connection is closed with an     *)
(* error): the except clause starts asyncio.sleep(backoff).                *)
ConnectionFails ==
    /\ stream.pc = "open"
    /\ stream' = [stream EXCEPT !.pc = "sleeping", !.waits = Append(@, stream.backoff),
                                !.lost = "error"]
    /\ UNCHANGED <<now, state, order_state, tasks, lastEval, lc, aux>>

(* async for ends (the connection is closed normally): pinger.cancel() and *)
(* the while loop connects again.                                          *)
ConnectionEnds ==
    /\ stream.pc = "open"
    /\ stream' = [stream EXCEPT !.pc = "connecting", !.lost = "ended"]
    /\ UNCHANGED <<now, state, order_state, tasks, lastEval, lc, aux>>

(* NextBackoff without the cap. *)
NextBackoff_Uncapped(backoff) == backoff * 2

(* backoff = min(backoff * 2, RECONNECT_MAX_BACKOFF) *)
NextBackoff(backoff) ==
    IF backoff * 2 < RECONNECT_MAX_BACKOFF THEN backoff * 2 ELSE RECONNECT_MAX_BACKOFF

(* The sleep of the except clause ends. *)
Wake ==
    /\ stream.pc = "sleeping"
    /\ stream' = [stream EXCEPT !.pc = "connecting", !.backoff = NextBackoff(@)]
    /\ UNCHANGED <<now, state, order_state, tasks, lastEval, lc, aux>>

(* The clock moves by a cooldown period. *)
StreamTick == Tick(TRADE_COOLDOWN_SECONDS)

InitStream == InitTrigger

NextStream ==
    \/ \E frame \in Frames : OnFrame(frame)
    \/ Subscribe
    \/ ConnectFails
    \/ ConnectionFails
    \/ ConnectionEnds
    \/ Wake
    \/ StreamTick
    \/ \E s \in TradeStatuses : TradeReturns(1, s)
    \/ TradeRaises(1)
    \/ Complete(1)

SpecStream == InitStream /\ [][NextStream]_vars

----------------------------------------------------------------------------
(* Claims about the frames and the connection loop.                        *)

(* C24 as stated: every trade a tracker holds, as its last trade and in    *)
(* its trade history, has a price above 0.                                 *)
C24_TradePricesPositive ==
    \A aid \in AssetIds :
        /\ state[aid].last_trade_price # None => state[aid].last_trade_price > 0
        /\ \A i \in 1..Len(state[aid].trade_history) :
              state[aid].trade_history[i].price > 0

(* C26: wherever a frame may be read, a frame that decodes to one object  *)
(* and a frame that decodes to the list of that one object give the same   *)
(* trackers, the same order state, the same tasks and the same evaluation. *)
C26_FrameShapeEquivalence ==
    stream.pc = "open" =>
        \A m \in Messages :
            FrameResult(state, order_state, tasks, ObjectFrame(m), now)
                = FrameResult(state, order_state, tasks, ListFrame(<<m>>), now)

(* A frame of a one-element list has been read and its trade applied. *)
C26_Witness ==
    /\ stream.seen # <<>>
    /\ stream.seen[Len(stream.seen)] = "list1"
    /\ lastEval = "not_triggered"
    /\ state[LAGGER].last_trade_price = 50
    /\ state[LAGGER].last_trade_side = "SELL"

(* C27: a frame that is no JSON leaves the clock, the trackers, the order  *)
(* state and the tasks as they were, and the connection loop reading with  *)
(* the backoff, the waits and the loss record it had.                      *)
C27_InvalidFrameDropped ==
    [][OnFrame(InvalidFrame)
          => /\ UNCHANGED <<now, state, order_state, tasks>>
             /\ stream'.pc = "open"
             /\ stream'.backoff = stream.backoff
             /\ stream'.waits = stream.waits
             /\ stream'.lost = stream.lost]_vars

(* A frame that is no JSON was read, and the frame after it was applied    *)
(* and evaluated on the same connection.                                   *)
C27_Witness ==
    /\ stream.seen = <<"invalid", "object">>
    /\ stream.pc = "open"
    /\ lastEval = "not_triggered"
    /\ state[LEADER].last_trade_price = 40

(* A list without its elements that the loop passes over. *)
RECURSIVE WithoutIgnored(_)
WithoutIgnored(events) ==
    IF events = <<>> THEN <<>>
    ELSE IF Head(events) \in Ignored THEN WithoutIgnored(Tail(events))
    ELSE <<Head(events)>> \o WithoutIgnored(Tail(events))

(* The entries of a price_changes list that are objects of a subscribed    *)
(* asset.                                                                  *)
RECURSIVE Applicable(_)
Applicable(pcs) ==
    IF pcs = <<>> THEN <<>>
    ELSE IF Head(pcs).is_dict /\ Head(pcs).asset_id \in AssetIds
         THEN <<Head(pcs)>> \o Applicable(Tail(pcs))
         ELSE Applicable(Tail(pcs))

(* Lists of up to three messages with an ignored one among them. *)
MixedLists ==
    { <<x, m>> : x \in Ignored, m \in {MsgLeader55, MsgPriceChange} }
        \cup { <<m, x, MsgBook>> : m \in {MsgLeader40, MsgPriceChange}, x \in Ignored }

(* C28: wherever a frame may be read, a message of an asset that is not   *)
(* subscribed, of an unknown kind, or that is no object changes no         *)
(* tracker, and a list with such messages in it leaves the trackers as the *)
(* list without them does; the same holds for the entries of a             *)
(* price_change.                                                           *)
C28_IgnoredEvents ==
    stream.pc = "open" =>
        /\ \A x \in Ignored : ApplyMessages(state, <<x>>, now) = state
        /\ \A l \in MixedLists :
              ApplyMessages(state, l, now) = ApplyMessages(state, WithoutIgnored(l), now)
        /\ ApplyMessages(state, <<MsgPriceChange>>, now)
              = ApplyMessages(state, <<[MsgPriceChange EXCEPT
                                           !.price_changes = Applicable(@)]>>, now)

(* A frame that is a list with ignored elements has been read, and the     *)
(* book behind them has been applied.                                      *)
C28_Witness ==
    /\ stream.seen # <<>>
    /\ stream.seen[Len(stream.seen)] = "list"
    /\ state[LAGGER].best_ask = 56
    /\ state[LAGGER].last_trade_price = 50
    /\ state[LEADER].last_trade_price = 40
    /\ state[LEADER].best_ask = None

(* The wait of the i-th failure in a row: 1, 2, 4, 8, 16, 30, 30, ... *)
RECURSIVE ExpectedWait(_)
ExpectedWait(i) ==
    IF i = 1 THEN 1
    ELSE IF 2 * ExpectedWait(i - 1) < 30 THEN 2 * ExpectedWait(i - 1) ELSE 30

(* C29 as stated: every attempt to connect again after a connection was    *)
(* lost comes after a wait.                                                *)
C29_EveryLossWaits ==
    (stream.pc = "connecting" /\ stream.lost # "none") => stream.waits # <<>>

(* C29: when the connection is lost by an error (connect, subscribe or     *)
(* read raises) the loop sleeps the current backoff before it connects     *)
(* again; the sleeps since the last subscription are 1, 2, 4, 8, 16, 30,   *)
(* 30, ...; the backoff is 1 while a connection is subscribed; and a       *)
(* connection that ends without an error is followed by a new connect      *)
(* with no sleep and the backoff left at 1.                                *)
C29_Backoff ==
    /\ \A i \in 1..Len(stream.waits) : stream.waits[i] = ExpectedWait(i)
    /\ stream.pc = "open" => stream.backoff = 1 /\ stream.waits = <<>>
    /\ stream.pc = "sleeping" =>
          /\ stream.lost = "error"
          /\ stream.waits # <<>>
          /\ stream.waits[Len(stream.waits)] = stream.backoff
    /\ (stream.pc = "connecting" /\ stream.lost = "error") =>
          /\ stream.waits # <<>>
          /\ stream.backoff = ExpectedWait(Len(stream.waits) + 1)
    /\ (stream.pc = "connecting" /\ stream.lost = "ended") =>
          /\ stream.waits = <<>>
          /\ stream.backoff = 1

(* Seven failures in a row: the loop sleeps for the seventh time. *)
C29_Witness ==
    /\ stream.pc = "sleeping"
    /\ stream.waits = <<1, 2, 4, 8, 16, 30, 30>>
    /\ stream.frames > 0

----------------------------------------------------------------------------
(* Further claims about the trigger, the replay of snapshots and the       *)
(* monitor.                                                                *)

(* A book snapshot of the leader with timestamp ts_ms that repeats the     *)
(* price of the leader's last trade.                                       *)
ReplayedSnapshot(ts_ms) ==
    BookMsg(LEADER, ts_ms, <<54>>, <<70>>, state[LEADER].last_trade_price)

C34_CooldownMonotone ==
    [][/\ order_state'.cooldown_until >= order_state.cooldown_until
       /\ Len(tasks') > Len(tasks)
             => order_state'.cooldown_until > order_state.cooldown_until]_vars

(* A firing has moved cooldown_until from 180 to 360, the task has         *)
(* completed and the connection has been lost and is being made again.     *)
C34_Witness ==
    /\ Len(tasks) = 1
    /\ tasks[1].pc = "finished"
    /\ ~order_state.active
    /\ order_state.cooldown_until = 2 * TRADE_COOLDOWN_SECONDS
    /\ stream.pc = "connecting"
    /\ stream.lost # "none"

(* C36 as stated: a cancel is attempted only after the monitor has run to  *)
(* its timeout, and an order for which a poll showed nothing remaining is  *)
(* not cancelled and does not end as cancelled.                            *)
C36_CancelOnlyAfterTimeout ==
    /\ lc.calls.attempts > 0 => lc.mon_exit = "timeout"
    /\ (lc.pc = "done" /\ lc.mon_exit = "remaining")
           => (lc.calls.attempts = 0 /\ lc.result[1] # "cancelled")

(* C37: before the first cooldown period has passed no trigger has fired:  *)
(* no task exists, active is not set and cooldown_until is the value set   *)
(* at the start; every firing is at 180 s or later.                        *)
C37_StartupCooldown ==
    /\ now < TRADE_COOLDOWN_SECONDS
          => /\ tasks = <<>>
             /\ ~order_state.active
             /\ order_state.cooldown_until = TRADE_COOLDOWN_SECONDS
    /\ \A i \in 1..Len(tasks) : tasks[i].firedAt >= TRADE_COOLDOWN_SECONDS

(* Inside the first cooldown period the leader has moved by more than the  *)
(* trigger amount, the lagger has a reference price, and the evaluation    *)
(* has not fired.                                                          *)
C37_Witness ==
    /\ now < TRADE_COOLDOWN_SECONDS
    /\ lastEval = "not_triggered"
    /\ tasks = <<>>
    /\ state[LAGGER].last_trade_price # None
    /\ LET q == get_current_and_old_trade(state[LEADER], now)
       IN  /\ q.cur # None
           /\ q.old # None
           /\ DeltaExceedsTrigger(q.cur, q.old)

----------------------------------------------------------------------------
(* One tracker fed with trades whose timestamps do not decrease, queried   *)
(* and shown by the printer.                                               *)

(* Trades the journal holds. *)
MaxRecorded == 3

WindowTimes == {0, 5, 60, 65, 130, 190}
WindowPrices == {40, 55}

(* The clock moves on to a later value of WindowTimes. *)
WindowTick(t) ==
    /\ t > now
    /\ Tick(t - now)

(* A last_trade_price message of the leader whose timestamp is not below   *)
(* the last one; the timestamp may be ahead of the local clock.            *)
RecordSorted(ts_s, price) ==
    /\ Len(journal.recorded) < MaxRecorded
    /\ state[LEADER].last_trade_ts_s # None => ts_s >= state[LEADER].last_trade_ts_s
    /\ state' = [state EXCEPT ![LEADER] = update_from_last_trade(@, ts_s, price, NoSide, None)]
    /\ journal' = [journal EXCEPT !.recorded = Append(@, [ts |-> ts_s, price |-> price]),
                                  !.ahead = @ \/ ts_s > now]
    /\ lastEval' = [NoCall EXCEPT !.op = "update_from_last_trade", !.at = now]
    /\ UNCHANGED <<now, order_state, tasks, lc, stream, captures, procs>>

(* The locked block of printer_loop: it reads order_state and, for each    *)
(* label, the bid, the ask and get_current_and_old_trade().                *)
PrinterRefresh ==
    /\ state' = [aid \in AssetIds |-> get_current_and_old_trade(state[aid], now).st]
    /\ lastEval' = [op |-> "printer_loop", at |-> now,
                    cur |-> get_current_and_old_trade(state[LEADER], now).cur,
                    old |-> get_current_and_old_trade(state[LEADER], now).old]
    /\ UNCHANGED <<now, order_state, tasks, lc, stream, aux>>

InitWindow == InitTracker

NextWindow ==
    \/ \E t \in WindowTimes : WindowTick(t)
    \/ \E ts_s \in WindowTimes, price \in WindowPrices : RecordSorted(ts_s, price)
    \/ QueryTrade
    \/ PrinterRefresh

SpecWindow == InitWindow /\ [][NextWindow]_vars

(* C32 as stated: a refresh of the printer leaves every tracker and the    *)
(* order state exactly as they were.                                       *)
C32_RefreshMutatesNothing ==
    [][PrinterRefresh => (state' = state /\ order_state' = order_state)]_vars

(* The trades ever recorded with a timestamp in [since_ts, until_ts], in   *)
(* arrival order.                                                          *)
RecordedBetween(since_ts, until_ts) ==
    LET Between(e) == since_ts <= e.ts /\ e.ts <= until_ts
    IN  SelectSeq(journal.recorded, Between)

(* C35: when no timestamp was ahead of the clock, get_recent_trades(now -  *)
(* 60, now) is, in arrival order, the trades ever recorded with a          *)
(* timestamp in [now - 60, now].                                           *)
C35_CaptureCoverage ==
    ~journal.ahead
        => get_recent_trades(state[LEADER], now - LOOKBACK_SECONDS, now)
               = RecordedBetween(now - LOOKBACK_SECONDS, now)

(* Three trades were recorded on time, the oldest has been trimmed, and    *)
(* the window holds a trade at its lower bound.                            *)
C35_Witness ==
    /\ ~journal.ahead
    /\ Len(journal.recorded) = 3
    /\ Len(state[LEADER].trade_history) = 2
    /\ get_recent_trades(state[LEADER], now - LOOKBACK_SECONDS, now) # <<>>
    /\ get_recent_trades(state[LEADER], now - LOOKBACK_SECONDS, now)[1].ts
           = now - LOOKBACK_SECONDS

(* The answer of get_current_and_old_trade on a history that is never      *)
(* trimmed.                                                                *)
UntrimmedAnswer(h, now_s) ==
    IF h = <<>> THEN <<None, None>>
    ELSE IF now_s - h[Len(h)].ts >= STALE_OLD_SECONDS THEN <<h[Len(h)].price, None>>
    ELSE <<h[Len(h)].price, ScanOld(h, now_s, h[Len(h)].price)>>

TrimmedAnswer ==
    <<get_current_and_old_trade(state[LEADER], now).cur,
      get_current_and_old_trade(state[LEADER], now).old>>

(* C38 as stated: for timestamps that do not decrease, the query on the    *)
(* trimmed history answers as the query on all trades ever recorded.       *)
C38_TrimInvisible ==
    TrimmedAnswer = UntrimmedAnswer(journal.recorded, now)

(* C38: for timestamps that do not decrease and are not ahead of the local *)
(* clock, the query on the trimmed history answers as the query on all     *)
(* trades ever recorded.                                                   *)
C38_TrimInvisibleOnTime ==
    ~journal.ahead => TrimmedAnswer = UntrimmedAnswer(journal.recorded, now)

(* Three trades were recorded on time, the oldest has been trimmed, and    *)
(* the query has answered with a lagged price that is not the current one. *)
C38_Witness ==
    /\ ~journal.ahead
    /\ Len(journal.recorded) = 3
    /\ Len(state[LEADER].trade_history) = 2
    /\ lastEval.op = "get_current_and_old_trade"
    /\ lastEval.at = now
    /\ lastEval.old # None
    /\ lastEval.old # lastEval.cur

----------------------------------------------------------------------------
(* The capture variant: ws_run of pricetracker_with_websocket_zimb.py.     *)
(* Its TokenState is the TokenState above with the side kept in each       *)
(* entry of the trade history.                                             *)

LeaderJumps == {40, 55}

(* The feed of the capture variant ends at this clock value. *)
MaxFeed == 180

(* The events of a frame: last_trade_price messages stamped with the clock. *)
CaptureBatches ==
    {<<>>}
        \cup { <<[aid |-> LEADER, price |-> p]>> : p \in LeaderJumps }
        \cup { <<[aid |-> LAGGER, price |-> 50]>> }
        \cup { <<[aid |-> LEADER, price |-> p], [aid |-> LAGGER, price |-> 50]>> :
                  p \in LeaderJumps }

(* The venue reports at most one trade of an asset per clock value, so   *)
(* that token, timestamp and price name one trade.                       *)
OneTradePerTick(batch) ==
    \A i \in 1..Len(batch) : state[batch[i].aid].last_trade_ts_s # now

(* recorded_trades: what update_from_last_trade returned for each event. *)
RECURSIVE RecordedTrades(_, _)
RecordedTrades(batch, ts_s) ==
    IF batch = <<>> THEN <<>>
    ELSE <<[token |-> Head(batch).aid, ts |-> ts_s, price |-> Head(batch).price]>>
             \o RecordedTrades(Tail(batch), ts_s)

(* The rows of one token for get_recent_trades(window_start, trigger_ts). *)
RECURSIVE RowsOf(_, _)
RowsOf(label, trades) ==
    IF trades = <<>> THEN <<>>
    ELSE <<[token |-> label, ts |-> Head(trades).ts, price |-> Head(trades).price]>>
             \o RowsOf(label, Tail(trades))

(* append_past_trades on an empty bucket: the leader's rows, then the *)
(* lagger's.                                                          *)
append_past_trades(s, window_start, trigger_ts) ==
    RowsOf(LEADER, get_recent_trades(s[LEADER], window_start, trigger_ts))
        \o RowsOf(LAGGER, get_recent_trades(s[LAGGER], window_start, trigger_ts))

(* new_capture after append_past_trades. *)
NewCapture(s, trigger_ts) ==
    [started_at |-> trigger_ts,
     start_ts |-> trigger_ts - LOOKBACK_SECONDS,
     end_ts |-> trigger_ts + LOOKBACK_SECONDS,
     trades |-> append_past_trades(s, trigger_ts - LOOKBACK_SECONDS, trigger_ts)]

(* MayOpenCapture without the test of the captures list. *)
MayOpenCapture_Always(caps, trig) == trig

(* The trigger condition holds and no capture is open (if not captures). *)
MayOpenCapture(caps, trig) == trig /\ caps = <<>>

(* The rows of recorded_trades inside the window of a capture. *)
RowsInside(cap, recorded) ==
    LET Inside(r) == cap.start_ts <= r.ts /\ r.ts <= cap.end_ts
    IN  SelectSeq(recorded, Inside)

(* The loop over recorded_trades and captures. *)
AppendRecorded(caps, recorded) ==
    [i \in 1..Len(caps) |-> [caps[i] EXCEPT !.trades = @ \o RowsInside(caps[i], recorded)]]

(* maybe_finish_captures: the captures past their end are written, one    *)
(* file each, and dropped from the list.                                  *)
Finished(caps, now_s) ==
    LET Over(c) == now_s >= c.end_ts IN SelectSeq(caps, Over)

StillOpen(caps, now_s) ==
    LET Open(c) == now_s < c.end_ts IN SelectSeq(caps, Open)

(* The files written for the finished captures, at now_s. *)
FilesOf(fin, now_s) ==
    [i \in 1..Len(fin) |-> [started_at |-> fin[i].started_at, end_ts |-> fin[i].end_ts,
                            at |-> now_s, rows |-> fin[i].trades]]

(* One frame: the events are applied, the trigger evaluated, a capture    *)
(* opened, the recorded trades appended and the finished captures         *)
(* written, all under the lock.                                           *)
OnCaptureFrame(batch) ==
    /\ now <= MaxFeed
    /\ now + LOOKBACK_SECONDS <= MaxTime
    /\ OneTradePerTick(batch)
    /\ LET s1 == ApplyEvents(state, batch, now)
           recorded == RecordedTrades(batch, now)
           lead == get_current_and_old_trade(s1[LEADER], now)
           s2 == [s1 EXCEPT ![LEADER] = lead.st]
           trig == lead.cur # None /\ lead.old # None
                       /\ DeltaExceedsTrigger(lead.cur, lead.old)
           opens == MayOpenCapture(captures, trig)
           caps1 == IF opens THEN Append(captures, NewCapture(s2, now)) ELSE captures
           caps2 == IF recorded # <<>> /\ caps1 # <<>>
                    THEN AppendRecorded(caps1, recorded)
                    ELSE caps1
       IN  /\ state' = s2
           /\ captures' = StillOpen(caps2, now)
           /\ journal' = [journal EXCEPT
                             !.opened = IF opens THEN @ + 1 ELSE @,
                             !.written = @ \o FilesOf(Finished(caps2, now), now)]
           /\ lastEval' = IF opens THEN "capture_opened"
                          ELSE IF trig THEN "capture_open"
                          ELSE "not_triggered"
    /\ UNCHANGED <<now, order_state, tasks, lc, stream, procs>>

(* capture_watcher, once a second: if captures: maybe_finish_captures. *)
CaptureWatcher ==
    /\ captures' = StillOpen(captures, now)
    /\ journal' = [journal EXCEPT !.written = @ \o FilesOf(Finished(captures, now), now)]
    /\ UNCHANGED <<now, state, order_state, tasks, lastEval, lc, stream, procs>>

(* The clock moves by a lookback period. *)
CaptureTick == Tick(LOOKBACK_SECONDS)

InitCapture == InitTrigger

NextCapture ==
    \/ \E batch \in CaptureBatches : OnCaptureFrame(batch)
    \/ CaptureWatcher
    \/ CaptureTick

SpecCapture == InitCapture /\ [][NextCapture]_vars

(* The clock goes on and the watcher wakes up every second. *)
FairSpecCapture ==
    /\ SpecCapture
    /\ WF_vars(CaptureTick)
    /\ WF_vars(CaptureWatcher)

(* No row occurs twice in a list of rows. *)
NoRowTwice(rows) ==
    \A i, j \in 1..Len(rows) : i # j => rows[i] # rows[j]

(* C39 as stated: in an open capture and in a written file every trade     *)
(* occurs at most once.                                                    *)
C39_EachTradeOnce ==
    /\ \A i \in 1..Len(captures) : NoRowTwice(captures[i].trades)
    /\ \A i \in 1..Len(journal.written) : NoRowTwice(journal.written[i].rows)

(* At most one capture is open, every capture opened is open or written,   *)
(* no capture is written twice, and none before its end time.              *)
CapturesAccounted ==
    /\ Len(captures) <= 1
    /\ journal.opened = Len(captures) + Len(journal.written)
    /\ \A i, j \in 1..Len(journal.written) :
          i # j => journal.written[i].started_at # journal.written[j].started_at
    /\ \A i \in 1..Len(journal.written) :
          /\ journal.written[i].at >= journal.written[i].end_ts
          /\ \A k \in 1..Len(captures) :
                captures[k].started_at # journal.written[i].started_at

(* C40: at most one capture is open at any time, every capture is written  *)
(* exactly once and not before its end time, and every open capture is     *)
(* written and removed in the end, frames or no frames.                    *)
C40_OneCaptureWrittenOnce ==
    /\ []CapturesAccounted
    /\ (captures # <<>>) ~> (captures = <<>>)

(* A first capture has been written, a second one is open, and the         *)
(* trigger condition held at the last frame without opening a third.       *)
C40_Witness ==
    /\ Len(journal.written) = 1
    /\ Len(captures) = 1
    /\ lastEval = "capture_open"

----------------------------------------------------------------------------
(* The lock of ws_run and the coroutines that take it: the frame loop, the *)
(* printer and the order task.  The position of a coroutine is the await   *)
(* it is suspended at, "waiting" for the lock, or "in_lock", the body of   *)
(* its async with lock block, which holds no await.                        *)

LockUsers == {"dispatch", "printer", "task"}

(* The positions that are a network call, an executor call or a sleep. *)
Suspended ==
    {"connecting", "subscribing", "recv", "backoff_sleep", "sleeping",
     "executing", "send", "sleep"}

(* async with lock, entered. *)
Enter(p, who) == [p EXCEPT !.lock = who, ![who] = "in_lock"]

(* Leave going on to the next await with the lock still held. *)
Leave_KeepsLock(p, who, next) == [p EXCEPT ![who] = next]

(* The end of the async with lock block, by its last statement or by an *)
(* exception: the lock is released before the next await.               *)
Leave(p, who, next) == [p EXCEPT !.lock = "none", ![who] = next]

OnlyProcs == UNCHANGED <<now, state, order_state, tasks, lastEval, lc, stream, captures, journal>>

(* websockets.connect returns or raises. *)
LockConnect ==
    /\ procs.dispatch = "connecting"
    /\ \E next \in {"subscribing", "backoff_sleep"} :
          procs' = [procs EXCEPT !.dispatch = next]
    /\ OnlyProcs

(* ws.send(sub_msg) returns, and the pinger is created, or raises. *)
LockSubscribe ==
    /\ procs.dispatch = "subscribing"
    /\ \/ procs' = [procs EXCEPT !.dispatch = "recv", !.pinger = "send"]
       \/ procs' = [procs EXCEPT !.dispatch = "backoff_sleep"]
    /\ OnlyProcs

(* async for raw in ws: a frame that decodes, the clean end of the socket *)
(* (pinger.cancel()), or an error, after which the closed socket fails    *)
(* the pinger's send.                                                     *)
LockReceive ==
    /\ procs.dispatch = "recv"
    /\ \/ procs' = [procs EXCEPT !.dispatch = "waiting"]
       \/ procs' = [procs EXCEPT !.dispatch = "connecting", !.pinger = "idle"]
       \/ procs' = [procs EXCEPT !.dispatch = "backoff_sleep", !.pinger = "idle"]
    /\ OnlyProcs

(* A coroutine waiting for the lock gets it when it is free. *)
LockAcquire(who) ==
    /\ procs[who] = "waiting"
    /\ procs.lock = "none"
    /\ procs' = Enter(procs, who)
    /\ OnlyProcs

(* The frame is handled; the order task is created when none is active. *)
LockDispatchDone ==
    /\ procs.dispatch = "in_lock"
    /\ procs.lock = "dispatch"
    /\ \E fire \in BOOLEAN :
          /\ fire => procs.task = "idle"
          /\ procs' = [Leave(procs, "dispatch", "recv") EXCEPT
                          !.task = IF fire THEN "executing" ELSE @]
    /\ OnlyProcs

(* An exception inside the block: except Exception, the backoff sleep. *)
LockDispatchRaises ==
    /\ procs.dispatch = "in_lock"
    /\ procs.lock = "dispatch"
    /\ procs' = [Leave(procs, "dispatch", "backoff_sleep") EXCEPT !.pinger = "idle"]
    /\ OnlyProcs

(* asyncio.sleep(backoff) is over. *)
LockWake ==
    /\ procs.dispatch = "backoff_sleep"
    /\ procs' = [procs EXCEPT !.dispatch = "connecting"]
    /\ OnlyProcs

(* printer_loop: the header, the block, the sleep. *)
LockPrinterHeader ==
    /\ procs.printer = "header"
    /\ procs' = [procs EXCEPT !.printer = "waiting"]
    /\ OnlyProcs

LockPrinterDone ==
    /\ procs.printer = "in_lock"
    /\ procs.lock = "printer"
    /\ procs' = Leave(procs, "printer", "sleeping")
    /\ OnlyProcs

LockPrinterWake ==
    /\ procs.printer = "sleeping"
    /\ procs' = [procs EXCEPT !.printer = "header"]
    /\ OnlyProcs

(* run_lagger_trade: the executor call returns or raises, then the block. *)
LockTaskReturns ==
    /\ procs.task = "executing"
    /\ procs' = [procs EXCEPT !.task = "waiting"]
    /\ OnlyProcs

LockTaskDone ==
    /\ procs.task = "in_lock"
    /\ procs.lock = "task"
    /\ procs' = Leave(procs, "task", "idle")
    /\ OnlyProcs

(* ping_loop: ws.send("PING"), asyncio.sleep(interval). *)
LockPing ==
    /\ procs.pinger \in {"send", "sleep"}
    /\ procs' = [procs EXCEPT !.pinger = IF @ = "send" THEN "sleep" ELSE "send"]
    /\ OnlyProcs

InitLock == InitTrigger

NextLock ==
    \/ LockConnect
    \/ LockSubscribe
    \/ LockReceive
    \/ \E who \in LockUsers : LockAcquire(who)
    \/ LockDispatchDone
    \/ LockDispatchRaises
    \/ LockWake
    \/ LockPrinterHeader
    \/ LockPrinterDone
    \/ LockPrinterWake
    \/ LockTaskReturns
    \/ LockTaskDone
    \/ LockPing

SpecLock == InitLock /\ [][NextLock]_vars

(* C31: the coroutine that holds the lock is not in a network call, an *)
(* executor call or a sleep, and a coroutine inside its block holds    *)
(* the lock.                                                            *)
C31_LockNotHeldAcrossAwait ==
    /\ procs.lock # "none" => procs[procs.lock] \notin Suspended
    /\ \A who \in LockUsers : procs[who] = "in_lock" => procs.lock = who

(* The order task holds the lock for its completion step while the frame *)
(* loop is in a receive, the printer waits and the pinger sleeps.        *)
C31_Witness ==
    /\ procs.lock = "task"
    /\ procs.dispatch = "recv"
    /\ procs.printer = "waiting"
    /\ procs.pinger = "sleep"

====
